---- MODULE Spec2Model ----
(***************************************************************************)
(* The VehicleStreamer of the playground gamemode: the maps between stored *)
(* and live vehicles, the respawn-token table, the respawn timers created  *)
(* by scheduleVehicleForRespawn, the drift sweep and the observer          *)
(* callbacks, each translated from its JavaScript.                         *)
(*                                                                         *)
(* Times are kept in half seconds and distances in half units so that the  *)
(* multiplier 0.5 and the threshold 1.5 stay integers.                     *)
(***************************************************************************)
EXTENDS Integers, Sequences, FiniteSets, TLC

\* ---------------------------------------------------------------- bounds
\* Number of stored vehicles (descriptors) known to the streamer.
NumStored == 2
\* Number of engine vehicle objects that can be created in one run.
MaxVehicles == 3
\* Number of respawn tokens (Symbols) that can be created in one run.
MaxTokens == 2
\* Largest number of occupants of one vehicle.
MaxOccupants == 2
\* Number of players that can be on the server.
NumPlayers == 2
\* Largest distance between a position that is queried and a vehicle.
MaxDistance == 2
\* maxVisible: the number of vehicles that may be live at the same time.
MaxVisible == 1
\* Number of observers that can be added to the GangManager.
NumObservers == 2
\* Number of notifications that one observer counts.
MaxEvents == 2
\* Number of pickups that the server creates for one Pickup.
MaxPickupIds == 4
\* Number of scheduleRespawn() calls of one Pickup that wait at the same time.
MaxPending == 2
\* Length of the longest message, for the 255 characters of the text buffer.
MaxMessageLength == 7
\* Number of objects that the server can hold.
MaxObjects == 5

\* ------------------------------------------------------------- constants
\* null / undefined: no live vehicle, no stored vehicle, no token, no trailer.
None == 0
\* The `null` that a failed entities_.createVehicle() leaves as a map value or key.
Null == 0 - 1

\* The longest text that is sent in one piece, for the 143 of the source.
MessageLimit == 3

\* The value of CreatePickup when the server cannot create the pickup.
INVALID_PICKUP_ID == 0 - 1

\* RecentUsagePin is the streamer's own Symbol().
RecentUsagePin == "RecentUsagePin"
\* UnoccupiedRespawnThreshold = 1.5 units, in half units.
UnoccupiedRespawnThreshold == 3

\* streamingDistance, in units of the default of 300.
StreamingDistance == 1
\* Number.MAX_SAFE_INTEGER: larger than every distance.
MAX_SAFE_INTEGER == 2147483647

StoredVehicles == 1..NumStored
Vehicles == 1..MaxVehicles
Tokens == 1..MaxTokens
Players == 1..NumPlayers
Observers == 1..NumObservers
\* The pin types: the streamer's own and one of another feature.
PinTypes == {RecentUsagePin, "OtherPin"}
\* The keys that storedVehicles_ can have.
VehicleKeys == Vehicles \cup {Null}


\* The stored vehicles' attributes: inputs of the model, fixed per descriptor.
\* respawnDelay in seconds; negative is the "no automated respawn" sentinel.
respawnDelay(storedVehicle) ==
    CASE storedVehicle % 3 = 1 -> 30
      [] storedVehicle % 3 = 2 -> -1
      [] OTHER -> 0
\* Whether the descriptor carries a deathFn / a respawnFn hook.
deathFn(storedVehicle) == storedVehicle % 2 = 1
respawnFn(storedVehicle) == storedVehicle % 2 = 0
\* storedVehicle.modelId.
modelId(storedVehicle) == 400 + (storedVehicle \div 3)
\* Whether the descriptor carries an accessFn, and what it answers for a player:
\* the restricted vehicles are open to players who are logged in as members.
hasAccessFn(storedVehicle) == storedVehicle % 2 = 1
accessFn(status, storedVehicle) == status = "member"

\* What the engine can report for a vehicle when the sweep reads it:
\* <<distance to the stored position (half units), virtual world differs,
\*   interior differs>>.
Readings == { <<0, FALSE, FALSE>>, <<3, FALSE, FALSE>>, <<4, FALSE, FALSE>>,
              <<0, TRUE, FALSE>>, <<0, FALSE, TRUE>> }

VARIABLES
    vehicles_,        \* Map StoredVehicle -> Vehicle (None: no entry)
    storedVehicles_,  \* Map Vehicle -> StoredVehicle (None: no entry)
    respawnTokens_,   \* Map Vehicle -> respawn token (None: no entry)
    pinned_,          \* the streamer's pins: set of <<storedVehicle, type>>
    disposed_,        \* this.disposed_
    timers,           \* scheduleVehicleForRespawn calls suspended in `await seconds`
    sweep,            \* processUnoccupiedVehicleUpdates: "waiting" or "done"
    connected,        \* Vehicle -> vehicle.isConnected()
    occupantCount,    \* Vehicle -> vehicle.occupantCount
    trailer,          \* Vehicle -> vehicle.trailer (None: no trailer)
    nextVehicle,      \* the next engine vehicle object
    nextToken,        \* the next Symbol
    players,          \* Player -> "offline", "guest" or "member" (server.playerManager)
    locked,           \* set of <<vehicle, player>>: the vehicle is locked for the player
    registered,       \* the stored vehicles that were added to the streamer
    pass,             \* the streaming pass in flight, if any
    observers_,       \* the observers of the GangManager
    gangPlayers,      \* the players who are in the gang
    joinedUserCount,  \* Observer -> number of onUserJoinGang calls it received
    leftUserCount,    \* Observer -> number of onUserLeaveGang calls it received
    id_,              \* Pickup.id_: None for null
    respawning_,      \* Pickup.respawning_
    manager_,         \* Pickup.manager_: "null" after dispose()
    pickupTimers,     \* number of scheduleRespawn() calls of the Pickup that wait
    enginePickups,    \* the pickups that exist on the server
    nextPickupId,     \* the id that CreatePickup returns next
    chatAdmins,       \* the players for whom isAdministrator() holds
    chatMembers,      \* gang.members of the gang that plays
    messageLevel,     \* Player -> messageLevel
    spyingPlayer_,    \* GangChatManager.spyingPlayer_: None for null
    spyConnected,     \* spyingPlayer_.isConnected()
    received,         \* Player -> times the last gang-chat message was sent to them
    attachedObjects_, \* Debug.attachedObjects_: Player -> [has, objects]
    debugDisposed,    \* Debug.dispose() has run: attachedObjects_ is null
    engineObjects,    \* the objects that exist on the server
    destroyedTwice,   \* DestroyObject was called for an object that did not exist
    message,          \* the message given to SendClientMessagePrivate
    delivered         \* the pieces given to the native SendClientMessage, in order

\* The state of the VehicleStreamer and of the engine's vehicles and players.
vehicleVars == << vehicles_, storedVehicles_, respawnTokens_, pinned_, disposed_, timers,
                  sweep, connected, occupantCount, trailer, nextVehicle, nextToken,
                  players, locked >>
\* The state of the streamer's base class.
streamVars == << registered, pass >>
\* The state of the GangManager.
gangVars == << observers_, gangPlayers, joinedUserCount, leftUserCount >>
\* The state of a Pickup and of the pickups on the server.
pickupVars == << id_, respawning_, manager_, pickupTimers, enginePickups, nextPickupId >>
\* The state of the GangChatManager and of the players it reads.
chatVars == << chatAdmins, chatMembers, messageLevel, spyingPlayer_, spyConnected, received >>
\* The state of the Debug feature and of the objects on the server.
debugVars == << attachedObjects_, debugDisposed, engineObjects, destroyedTwice >>
\* The state of SendClientMessagePrivate.
messageVars == << message, delivered >>
\* The state of the features other than the streamer.
otherFeatureVars == << gangVars, pickupVars, chatVars, debugVars, messageVars >>
\* What the operations of one feature leave alone.
exceptGangVars == << vehicleVars, streamVars, pickupVars, chatVars, debugVars, messageVars >>
exceptPickupVars == << vehicleVars, streamVars, gangVars, chatVars, debugVars, messageVars >>
exceptChatVars == << vehicleVars, streamVars, gangVars, pickupVars, debugVars, messageVars >>
exceptDebugVars == << vehicleVars, streamVars, gangVars, pickupVars, chatVars, messageVars >>
exceptMessageVars == << vehicleVars, streamVars, gangVars, pickupVars, chatVars, debugVars >>

vars == << vehicleVars, streamVars, otherFeatureVars >>

\* ------------------------------------------------------------- helpers
Range(seq) == { seq[i] : i \in DOMAIN seq }

\* A call made by an operation.
Eff(kind, vehicle, storedVehicle, token) ==
    [kind |-> kind, vehicle |-> vehicle, storedVehicle |-> storedVehicle, token |-> token]

\* The part of the state that the callbacks below read and write, with the
\* calls they make (pin, unpin, token writes, hooks, vehicle.respawn()) in order.
St == [pinned_ |-> pinned_, respawnTokens_ |-> respawnTokens_, timers |-> timers,
       nextToken |-> nextToken, effects |-> << >>]

\* vehicle.parent: the vehicle that tows |vehicle|.
parent(vehicle) ==
    IF \E p \in Vehicles : trailer[p] = vehicle
    THEN CHOOSE p \in Vehicles : trailer[p] = vehicle
    ELSE None

\* EntityStreamerGlobal.pin / unpin / isPinned.
pin(st, vehicle, storedVehicle, type) ==
    [st EXCEPT !.pinned_ = @ \cup {<<storedVehicle, type>>},
               !.effects = Append(@, Eff("pin", vehicle, storedVehicle, None))]

unpin(st, vehicle, storedVehicle, type) ==
    [st EXCEPT !.pinned_ = @ \ {<<storedVehicle, type>>},
               !.effects = Append(@, Eff("unpin", vehicle, storedVehicle, None))]

isPinned(st, storedVehicle) == \E p \in st.pinned_ : p[1] = storedVehicle

\* this.respawnTokens_.set / delete.
setToken(st, vehicle, token) ==
    [st EXCEPT !.respawnTokens_ = [@ EXCEPT ![vehicle] = token],
               !.effects = Append(@, Eff("setToken", vehicle, None, token))]

deleteToken(st, vehicle) ==
    [st EXCEPT !.respawnTokens_ = [@ EXCEPT ![vehicle] = None],
               !.effects = Append(@, Eff("deleteToken", vehicle, None, None))]

\* storedVehicle.deathFn(vehicle, storedVehicle), when the hook is there.
callDeathFn(st, vehicle, storedVehicle) ==
    IF deathFn(storedVehicle)
    THEN [st EXCEPT !.effects = Append(@, Eff("deathFn", vehicle, storedVehicle, None))]
    ELSE st

\* Mutant: vehicle.respawn() is not called.
callRespawn_Skips(st, vehicle) == st

\* vehicle.respawn(), when the vehicle is connected.
callRespawn(st, vehicle) ==
    IF connected[vehicle]
    THEN [st EXCEPT !.effects = Append(@, Eff("respawn", vehicle, None, None))]
    ELSE st

\* Vector.closeTo(other, threshold), on the distance the engine reports.
closeTo(distance, threshold) == distance <= threshold

\* The stored vehicle under which |vehicle| is a value of the vehicles_ map.
keyOf(vehicle) ==
    IF \E s \in StoredVehicles : vehicles_[s] = vehicle
    THEN CHOOSE s \in StoredVehicles : vehicles_[s] = vehicle
    ELSE None

\* ------------------------------------------------------------- query
\* What a query can be asked: the distance of each stored vehicle's position
\* and of each live vehicle's current position to the queried position.
Distances == 0..MaxDistance

\* EntityStreamerGlobal.query(position): the stored vehicles within the
\* streaming distance of the position.
superQuery(storedDistance) ==
    { s \in StoredVehicles : storedDistance[s] <= StreamingDistance }

\* Mutant: a vehicle replaces the closest one so far when it is farther away.
RECURSIVE closestFrom_KeepsFarther(_, _, _, _)
closestFrom_KeepsFarther(vehicle, closestVehicle, closestDistance, liveDistance) ==
    IF vehicle > MaxVehicles THEN closestVehicle
    ELSE IF keyOf(vehicle) = None
    THEN closestFrom_KeepsFarther(vehicle + 1, closestVehicle, closestDistance,
                                  liveDistance)
    ELSE LET squaredDistance == liveDistance[vehicle] IN
         IF closestVehicle # None /\ squaredDistance < closestDistance
         THEN closestFrom_KeepsFarther(vehicle + 1, closestVehicle, closestDistance,
                                       liveDistance)
         ELSE closestFrom_KeepsFarther(vehicle + 1, vehicle, squaredDistance,
                                       liveDistance)

\* The loop of query over this.vehicles_.values(), in insertion order.
RECURSIVE closestFrom(_, _, _, _)
closestFrom(vehicle, closestVehicle, closestDistance, liveDistance) ==
    IF vehicle > MaxVehicles THEN closestVehicle
    ELSE IF keyOf(vehicle) = None
    THEN closestFrom(vehicle + 1, closestVehicle, closestDistance, liveDistance)
    ELSE LET squaredDistance == liveDistance[vehicle] IN
         IF squaredDistance > closestDistance
         THEN closestFrom(vehicle + 1, closestVehicle, closestDistance, liveDistance)
         ELSE closestFrom(vehicle + 1, vehicle, squaredDistance, liveDistance)

\* query(position).
query(storedDistance, liveDistance) ==
    LET storedVehicles == superQuery(storedDistance)
        models == { modelId(s) : s \in storedVehicles }
    IN [vehicles |-> Cardinality(storedVehicles),
        models |-> Cardinality(models),
        closestVehicle |-> closestFrom(1, None, MAX_SAFE_INTEGER, liveDistance)]

\* ------------------------------------------------- access synchronisation
\* Vehicle.lockForPlayer / unlockForPlayer.
lockForPlayer(lockedFor, vehicle, player) == lockedFor \cup {<< vehicle, player >>}
unlockForPlayer(lockedFor, vehicle, player) == lockedFor \ {<< vehicle, player >>}

\* !storedVehicle.accessFn || storedVehicle.accessFn(player, storedVehicle)
hasAccess(status, storedVehicle) ==
    ~hasAccessFn(storedVehicle) \/ accessFn(status, storedVehicle)

\* The players that `for (const player of server.playerManager)` visits.
OnlinePlayers(status) == { p \in Players : status[p] # "offline" }

\* The loop of synchronizeAccessForVehicle over the players |todo|.
RECURSIVE accessForVehicleLoop(_, _, _, _, _)
accessForVehicleLoop(lockedFor, storedVehicle, vehicle, status, todo) ==
    IF todo = {} THEN lockedFor
    ELSE LET player == CHOOSE p \in todo : \A q \in todo : p <= q IN
         accessForVehicleLoop(
             IF ~hasAccess(status[player], storedVehicle)
             THEN lockForPlayer(lockedFor, vehicle, player)
             ELSE unlockForPlayer(lockedFor, vehicle, player),
             storedVehicle, vehicle, status, todo \ {player})

\* Mutant: the vehicle is locked for nobody.
synchronizeAccessForVehicle_LocksNobody(lockedFor, storedVehicle, vehicle, status) ==
    lockedFor

\* synchronizeAccessForVehicle(storedVehicle); |vehicle| is
\* this.vehicles_.get(storedVehicle) and |status| the players' state.
synchronizeAccessForVehicle(lockedFor, storedVehicle, vehicle, status) ==
    IF vehicle \in {None, Null} THEN lockedFor
    ELSE accessForVehicleLoop(lockedFor, storedVehicle, vehicle, status,
                              OnlinePlayers(status))

\* Mutant: synchronizeAccessForPlayer locks, but never unlocks.
RECURSIVE synchronizeAccessForPlayer_NeverUnlocks(_, _, _, _)
synchronizeAccessForPlayer_NeverUnlocks(lockedFor, player, status, todo) ==
    IF todo = {} THEN lockedFor
    ELSE LET storedVehicle == CHOOSE s \in todo : \A q \in todo : s <= q
             vehicle == vehicles_[storedVehicle]
         IN synchronizeAccessForPlayer_NeverUnlocks(
                IF ~hasAccess(status, storedVehicle)
                THEN lockForPlayer(lockedFor, vehicle, player)
                ELSE lockedFor,
                player, status, todo \ {storedVehicle})

\* synchronizeAccessForPlayer(player): the loop over the entries |todo| of
\* vehicles_; |status| is the player's state when the callback runs.
RECURSIVE synchronizeAccessForPlayer(_, _, _, _)
synchronizeAccessForPlayer(lockedFor, player, status, todo) ==
    IF todo = {} THEN lockedFor
    ELSE LET storedVehicle == CHOOSE s \in todo : \A q \in todo : s <= q
             vehicle == vehicles_[storedVehicle]
         IN synchronizeAccessForPlayer(
                IF ~hasAccess(status, storedVehicle)
                THEN lockForPlayer(lockedFor, vehicle, player)
                ELSE unlockForPlayer(lockedFor, vehicle, player),
                player, status, todo \ {storedVehicle})

\* The stored vehicles that have an entry in vehicles_.
LiveStoredVehicles == { s \in StoredVehicles : vehicles_[s] # None }

\* ------------------------------------------------- respawn scheduling
\* Mutant: the "no automated respawn" sentinel is not checked.
scheduleVehicleForRespawn_NoSentinel(st, vehicle, storedVehicle, timeMultipler2) ==
    LET respawnTime2 == respawnDelay(storedVehicle) * timeMultipler2
        token == st.nextToken
    IN [setToken(st, vehicle, token) EXCEPT
           !.timers = @ \cup {[vehicle |-> vehicle, token |-> token,
                               respawnTime2 |-> respawnTime2]},
           !.nextToken = @ + 1]

\* Mutant: a vehicle that has a respawn token keeps it when it is scheduled again.
scheduleVehicleForRespawn_KeepsToken(st, vehicle, storedVehicle, timeMultipler2) ==
    LET respawnTime2 == respawnDelay(storedVehicle) * timeMultipler2 IN
    IF respawnTime2 < 0
    THEN unpin(st, vehicle, storedVehicle, RecentUsagePin)
    ELSE LET token == st.nextToken
             st1 == IF st.respawnTokens_[vehicle] = None
                    THEN setToken(st, vehicle, token)
                    ELSE st
         IN [st1 EXCEPT
                !.timers = @ \cup {[vehicle |-> vehicle, token |-> token,
                                    respawnTime2 |-> respawnTime2]},
                !.nextToken = @ + 1]

\* scheduleVehicleForRespawn up to its `await seconds(respawnTime)`.
\* |timeMultipler2| is twice the timeMultipler, respawnTime2 twice the time.
scheduleVehicleForRespawn(st, vehicle, storedVehicle, timeMultipler2) ==
    LET respawnTime2 == respawnDelay(storedVehicle) * timeMultipler2 IN
    IF respawnTime2 < 0
    THEN unpin(st, vehicle, storedVehicle, RecentUsagePin)
    ELSE LET token == st.nextToken IN
         [setToken(st, vehicle, token) EXCEPT
             !.timers = @ \cup {[vehicle |-> vehicle, token |-> token,
                                 respawnTime2 |-> respawnTime2]},
             !.nextToken = @ + 1]

\* Mutant: only the vehicle itself is respawned, not its trailers.
respawnChain_HeadOnly(st, vehicle) ==
    IF vehicle = None THEN st
    ELSE LET storedVehicle == storedVehicles_[vehicle]
             st1 == IF storedVehicle # None
                    THEN callDeathFn(
                             deleteToken(
                                 unpin(st, vehicle, storedVehicle, RecentUsagePin),
                                 vehicle),
                             vehicle, storedVehicle)
                    ELSE st
         IN callRespawn(st1, vehicle)

\* The `while (vehicle)` loop of scheduleVehicleForRespawn: the vehicle and
\* the trailers attached to it.
RECURSIVE respawnChain(_, _)
\* Mutant: the timer that fires respawns the vehicles but leaves their tokens.
RECURSIVE respawnChain_KeepsToken(_, _)
respawnChain_KeepsToken(st, vehicle) ==
    IF vehicle = None THEN st
    ELSE LET trailerOfVehicle == trailer[vehicle]
             storedVehicle == storedVehicles_[vehicle]
             st1 == IF storedVehicle # None
                    THEN callDeathFn(
                             unpin(st, vehicle, storedVehicle, RecentUsagePin),
                             vehicle, storedVehicle)
                    ELSE st
         IN respawnChain_KeepsToken(callRespawn(st1, vehicle), trailerOfVehicle)

respawnChain(st, vehicle) ==
    IF vehicle = None THEN st
    ELSE LET trailerOfVehicle == trailer[vehicle]
             storedVehicle == storedVehicles_[vehicle]
             st1 == IF storedVehicle # None
                    THEN callDeathFn(
                             deleteToken(
                                 unpin(st, vehicle, storedVehicle, RecentUsagePin),
                                 vehicle),
                             vehicle, storedVehicle)
                    ELSE st
         IN respawnChain(callRespawn(st1, vehicle), trailerOfVehicle)

\* Mutant: the resumed call does not compare the respawn token.
respawnTimerFired_IgnoresToken(st, timer) ==
    IF ~connected[timer.vehicle] THEN st ELSE respawnChain(st, timer.vehicle)

\* Mutant: the resumed call does not check that the vehicle is still connected.
respawnTimerFired_IgnoresConnected(st, timer) ==
    IF st.respawnTokens_[timer.vehicle] # timer.token
    THEN st
    ELSE respawnChain(st, timer.vehicle)

\* scheduleVehicleForRespawn from the moment its timer |timer| fires.
respawnTimerFired(st, timer) ==
    IF ~connected[timer.vehicle] \/ st.respawnTokens_[timer.vehicle] # timer.token
    THEN st
    ELSE respawnChain(st, timer.vehicle)

\* ------------------------------------------------------- drift sweep
\* Mutant: the pass does not skip the vehicles that already have a respawn token.
RECURSIVE sweepFrom_IgnoresToken(_, _, _)
sweepFrom_IgnoresToken(st, vehicle, reading) ==
    IF vehicle > MaxVehicles THEN st
    ELSE LET storedVehicle == keyOf(vehicle) IN
         IF storedVehicle = None
         THEN sweepFrom_IgnoresToken(st, vehicle + 1, reading)
         ELSE IF occupantCount[vehicle] > 0
         THEN sweepFrom_IgnoresToken(st, vehicle + 1, reading)
         ELSE IF /\ closeTo(reading[vehicle][1], UnoccupiedRespawnThreshold)
                 /\ ~reading[vehicle][2]
                 /\ ~reading[vehicle][3]
         THEN sweepFrom_IgnoresToken(st, vehicle + 1, reading)
         ELSE sweepFrom_IgnoresToken(
                  scheduleVehicleForRespawn(st, vehicle, storedVehicle, 1),
                  vehicle + 1, reading)

\* The readings the engine can report during one pass of the sweep.
SweepReadings == [{ v \in Vehicles : keyOf(v) # None } -> Readings]

\* One pass of the for-loop of processUnoccupiedVehicleUpdates, over the
\* entries of vehicles_ in insertion order (the order of the vehicle objects).
RECURSIVE sweepFrom(_, _, _)
sweepFrom(st, vehicle, reading) ==
    IF vehicle > MaxVehicles THEN st
    ELSE LET storedVehicle == keyOf(vehicle) IN
         IF storedVehicle = None
         THEN sweepFrom(st, vehicle + 1, reading)
         ELSE IF occupantCount[vehicle] > 0
         THEN sweepFrom(st, vehicle + 1, reading)
         ELSE IF st.respawnTokens_[vehicle] # None
         THEN sweepFrom(st, vehicle + 1, reading)
         ELSE IF /\ closeTo(reading[vehicle][1], UnoccupiedRespawnThreshold)
                 /\ ~reading[vehicle][2]
                 /\ ~reading[vehicle][3]
         THEN sweepFrom(st, vehicle + 1, reading)
         ELSE sweepFrom(scheduleVehicleForRespawn(st, vehicle, storedVehicle, 1),
                        vehicle + 1, reading)

\* ------------------------------------------------- observer callbacks
\* Mutant: entering pins the stored vehicle but leaves its respawn token.
onPlayerEnterVehicle_KeepsToken(st, vehicle) ==
    LET storedVehicle == storedVehicles_[vehicle] IN
    IF storedVehicle = None THEN st
    ELSE pin(st, vehicle, storedVehicle, RecentUsagePin)

onPlayerEnterVehicle(st, vehicle) ==
    LET storedVehicle == storedVehicles_[vehicle] IN
    IF storedVehicle = None THEN st
    ELSE deleteToken(pin(st, vehicle, storedVehicle, RecentUsagePin), vehicle)

\* Mutant: only the towing vehicle itself is looked at, not the vehicles up
\* its parent chain.
onTrailerAttached_DirectOnly(st, vehicle, attached) ==
    IF vehicle = None THEN st
    ELSE LET storedVehicle == storedVehicles_[vehicle] IN
         IF storedVehicle # None /\ isPinned(st, storedVehicle)
         THEN onPlayerEnterVehicle(st, attached)
         ELSE st

RECURSIVE onTrailerAttached(_, _, _)
onTrailerAttached(st, vehicle, attached) ==
    IF vehicle = None THEN st
    ELSE LET storedVehicle == storedVehicles_[vehicle] IN
         IF storedVehicle # None /\ isPinned(st, storedVehicle)
         THEN onPlayerEnterVehicle(st, attached)
         ELSE onTrailerAttached(st, parent(vehicle), attached)

\* Mutant: the last occupant is taken to be still in the vehicle.
onPlayerLeaveVehicle_CountsLeaver(st, vehicle) ==
    LET storedVehicle == storedVehicles_[vehicle] IN
    IF storedVehicle = None THEN st
    ELSE IF occupantCount[vehicle] > 0 THEN st
    ELSE scheduleVehicleForRespawn(st, vehicle, storedVehicle, 2)

onPlayerLeaveVehicle(st, vehicle) ==
    LET storedVehicle == storedVehicles_[vehicle] IN
    IF storedVehicle = None THEN st
    ELSE IF occupantCount[vehicle] > 1 THEN st
    ELSE scheduleVehicleForRespawn(st, vehicle, storedVehicle, 2)

\* Mutant: the towing vehicle is released instead of the trailer.
onTrailerDetached_ReleasesVehicle(st, vehicle, detached) ==
    onPlayerLeaveVehicle(st, vehicle)

onTrailerDetached(st, vehicle, detached) == onPlayerLeaveVehicle(st, detached)

\* Mutant: a destroyed vehicle is respawned after the full delay.
onVehicleDeath_FullDelay(st, vehicle) ==
    LET storedVehicle == storedVehicles_[vehicle] IN
    IF storedVehicle = None THEN st
    ELSE IF occupantCount[vehicle] > 0 THEN st
    ELSE scheduleVehicleForRespawn(st, vehicle, storedVehicle, 2)

onVehicleDeath(st, vehicle) ==
    LET storedVehicle == storedVehicles_[vehicle] IN
    IF storedVehicle = None THEN st
    ELSE IF occupantCount[vehicle] > 0 THEN st
    ELSE scheduleVehicleForRespawn(st, vehicle, storedVehicle, 1)

\* Mutant: the virtual world of the spawned vehicle is not put back.
onVehicleSpawn_SkipsVirtualWorld(st, vehicle, reading) ==
    LET storedVehicle == storedVehicles_[vehicle]
        st1 == IF reading[3]
               THEN [st EXCEPT !.effects =
                        Append(@, Eff("setInteriorId", vehicle, storedVehicle, None))]
               ELSE st
    IN IF storedVehicle = None THEN st
       ELSE IF respawnFn(storedVehicle)
       THEN [st1 EXCEPT !.effects =
                Append(@, Eff("respawnFn", vehicle, storedVehicle, None))]
       ELSE st1

\* |reading| is what the engine reports for the spawned vehicle.
onVehicleSpawn(st, vehicle, reading) ==
    LET storedVehicle == storedVehicles_[vehicle]
        st1 == IF reading[3]
               THEN [st EXCEPT !.effects =
                        Append(@, Eff("setInteriorId", vehicle, storedVehicle, None))]
               ELSE st
        st2 == IF reading[2]
               THEN [st1 EXCEPT !.effects =
                        Append(@, Eff("setVirtualWorld", vehicle, storedVehicle, None))]
               ELSE st1
    IN IF storedVehicle = None THEN st
       ELSE IF respawnFn(storedVehicle)
       THEN [st2 EXCEPT !.effects =
                Append(@, Eff("respawnFn", vehicle, storedVehicle, None))]
       ELSE st2

\* Mutant: respawnUnoccupiedVehicles leaves the respawn tokens alone.
RECURSIVE respawnUnoccupiedFrom_KeepsToken(_, _)
respawnUnoccupiedFrom_KeepsToken(st, vehicle) ==
    IF vehicle > MaxVehicles THEN st
    ELSE LET storedVehicle == keyOf(vehicle) IN
         IF storedVehicle = None \/ occupantCount[vehicle] > 0
         THEN respawnUnoccupiedFrom_KeepsToken(st, vehicle + 1)
         ELSE respawnUnoccupiedFrom_KeepsToken(
                  callRespawn(callDeathFn(st, vehicle, storedVehicle), vehicle),
                  vehicle + 1)

\* respawnUnoccupiedVehicles, over the entries of vehicles_ in insertion order.
RECURSIVE respawnUnoccupiedFrom(_, _)
respawnUnoccupiedFrom(st, vehicle) ==
    IF vehicle > MaxVehicles THEN st
    ELSE LET storedVehicle == keyOf(vehicle) IN
         IF storedVehicle = None \/ occupantCount[vehicle] > 0
         THEN respawnUnoccupiedFrom(st, vehicle + 1)
         ELSE respawnUnoccupiedFrom(
                  callRespawn(callDeathFn(deleteToken(st, vehicle), vehicle, storedVehicle),
                              vehicle),
                  vehicle + 1)

\* ---------------------------------------------------------- the engine
\* vehicle.dispose() in the engine: the vehicle is gone, with its occupants
\* and its trailer links.
disposeVehicles(gone) ==
    /\ connected' = [v \in Vehicles |-> connected[v] /\ v \notin gone]
    /\ occupantCount' = [v \in Vehicles |-> IF v \in gone THEN 0 ELSE occupantCount[v]]
    /\ trailer' = [v \in Vehicles |->
                     IF v \in gone \/ trailer[v] \in gone THEN None ELSE trailer[v]]
    /\ locked' = { l \in locked : l[1] \notin gone }

\* The vehicles that tow |vehicle|, directly or not.
RECURSIVE towing(_)
towing(vehicle) ==
    IF parent(vehicle) = None THEN {}
    ELSE {parent(vehicle)} \cup towing(parent(vehicle))

\* The callbacks' writes.
Commit(st) ==
    /\ st.nextToken <= MaxTokens + 1
    /\ pinned_' = st.pinned_
    /\ respawnTokens_' = st.respawnTokens_
    /\ timers' = st.timers
    /\ nextToken' = st.nextToken

\* ------------------------------------------------------------- the state
\* No streaming pass is in flight.
IdlePass == [phase |-> "idle", toDematerialize |-> {}, toMaterialize |-> << >>]

\* =================================================================
\* Pickup
\* =================================================================
\* The fields of the Pickup that its methods write, and the calls they make.
PickupSt ==
    [id_ |-> id_, respawning_ |-> respawning_, manager_ |-> manager_,
     enginePickups |-> enginePickups, nextPickupId |-> nextPickupId, calls |-> << >>]

\* pawnInvoke('CreatePickup', ...): the id of a new pickup, or -1 when the
\* server could not create it.
CreatePickup(p, created) ==
    IF created
    THEN [p EXCEPT !.id_ = p.nextPickupId,
                   !.enginePickups = @ \cup {p.nextPickupId},
                   !.nextPickupId = @ + 1,
                   !.calls = Append(@, "CreatePickup")]
    ELSE [p EXCEPT !.id_ = INVALID_PICKUP_ID,
                   !.calls = Append(@, "CreatePickup")]

\* pawnInvoke('DestroyPickup', 'i', this.id_).
DestroyPickup(p) ==
    [p EXCEPT !.enginePickups = @ \ {p.id_}, !.calls = Append(@, "DestroyPickup")]

\* isConnected().
isConnected(p) == p.id_ # None \/ p.respawning_

\* scheduleRespawn() up to its await.
scheduleRespawn(p) ==
    [DestroyPickup(p) EXCEPT !.respawning_ = TRUE, !.id_ = None]

\* Mutant: the resumed call recreates the pickup without looking at isConnected.
scheduleRespawnResumed_IgnoresDispose(p, created) ==
    LET recreated == CreatePickup([p EXCEPT !.respawning_ = FALSE], created)
    IN  IF recreated.id_ = INVALID_PICKUP_ID THEN recreated
        ELSE [recreated EXCEPT !.calls = Append(@, "didRecreatePickup")]

\* scheduleRespawn() from the moment its await returns.
scheduleRespawnResumed(p, created) ==
    IF ~isConnected(p) THEN p
    ELSE LET recreated == CreatePickup([p EXCEPT !.respawning_ = FALSE], created)
         IN  IF recreated.id_ = INVALID_PICKUP_ID THEN recreated
             ELSE [recreated EXCEPT !.calls = Append(@, "didRecreatePickup")]

\* dispose().
disposePickup(p) ==
    LET destroyed == IF ~p.respawning_
                     THEN [DestroyPickup(p) EXCEPT
                              !.calls = Append(@, "didDisposePickup")]
                     ELSE p
    IN  [destroyed EXCEPT !.manager_ = "null", !.respawning_ = FALSE, !.id_ = None]

\* The fields after a method has run.
CommitPickup(p) ==
    /\ p.nextPickupId <= MaxPickupIds + 1
    /\ id_' = p.id_
    /\ respawning_' = p.respawning_
    /\ manager_' = p.manager_
    /\ enginePickups' = p.enginePickups
    /\ nextPickupId' = p.nextPickupId

\* new Pickup(manager, ...): the constructor creates the pickup on the server.
PickupInit(created) ==
    LET p == CreatePickup([id_ |-> None, respawning_ |-> FALSE,
                           manager_ |-> "manager", enginePickups |-> {},
                           nextPickupId |-> 1, calls |-> << >>], created)
    IN  /\ id_ = p.id_
        /\ respawning_ = p.respawning_
        /\ manager_ = p.manager_
        /\ enginePickups = p.enginePickups
        /\ nextPickupId = p.nextPickupId
        /\ pickupTimers = 0

\* The streamer and the engine after the constructor.
EngineInit ==
    /\ vehicles_ = [s \in StoredVehicles |-> None]
    /\ storedVehicles_ = [v \in VehicleKeys |-> None]
    /\ respawnTokens_ = [v \in Vehicles |-> None]
    /\ pinned_ = {}
    /\ disposed_ = FALSE
    /\ timers = {}
    /\ sweep = "waiting"
    /\ connected = [v \in Vehicles |-> FALSE]
    /\ occupantCount = [v \in Vehicles |-> 0]
    /\ trailer = [v \in Vehicles |-> None]
    /\ nextVehicle = 1
    /\ nextToken = 1
    /\ players = [p \in Players |-> "offline"]
    /\ locked = {}

\* The GangManager after its constructor, and the counters of the observers.
GangInit ==
    /\ observers_ = {}
    /\ gangPlayers = {}
    /\ joinedUserCount = [o \in Observers |-> 0]
    /\ leftUserCount = [o \in Observers |-> 0]

\* The GangChatManager after its constructor, with the players as given.
ChatInit(admins, members, level) ==
    /\ chatAdmins = admins
    /\ chatMembers = members
    /\ messageLevel = level
    /\ spyingPlayer_ = None
    /\ spyConnected = FALSE
    /\ received = [p \in Players |-> 0]

\* The Debug feature after its constructor.
DebugInit ==
    /\ attachedObjects_ = [p \in Players |-> [has |-> FALSE, objects |-> {}]]
    /\ debugDisposed = FALSE
    /\ engineObjects = {}
    /\ destroyedTwice = FALSE

\* No message has been sent.
MessageInit ==
    /\ message = << >>
    /\ delivered = << >>

\* The features other than the streamer after their constructors.
FeaturesInit ==
    /\ GangInit
    /\ PickupInit(TRUE)
    /\ ChatInit({}, {}, [p \in Players |-> 0])
    /\ DebugInit
    /\ MessageInit

\* Every stored vehicle has been added to the streamer.
Init ==
    /\ EngineInit
    /\ registered = StoredVehicles
    /\ pass = IdlePass
    /\ FeaturesInit

\* ----------------------------------------------------------- operations
\* this.vehicles_.has(storedVehicle): createEntity throws
\* 'Attempting to create a vehicle that already exists.'
createEntityThrows(storedVehicle) == vehicles_[storedVehicle] # None

\* Mutant: createEntity does not look for an existing vehicle.
createEntity_Overwrites(storedVehicle) ==
    /\ nextVehicle <= MaxVehicles
    /\ vehicles_' = [vehicles_ EXCEPT ![storedVehicle] = nextVehicle]
    /\ storedVehicles_' = [storedVehicles_ EXCEPT ![nextVehicle] = storedVehicle]
    /\ connected' = [connected EXCEPT ![nextVehicle] = TRUE]
    /\ nextVehicle' = nextVehicle + 1
    /\ locked' = synchronizeAccessForVehicle(locked, storedVehicle, nextVehicle, players)

\* createEntity(storedVehicle) when entities_.createVehicle() succeeds: it
\* throws when the stored vehicle has an entry, and then changes nothing.
createEntity(storedVehicle) ==
    IF createEntityThrows(storedVehicle)
    THEN UNCHANGED << vehicles_, storedVehicles_, connected, nextVehicle, locked >>
    ELSE /\ nextVehicle <= MaxVehicles
         /\ vehicles_' = [vehicles_ EXCEPT ![storedVehicle] = nextVehicle]
         /\ storedVehicles_' = [storedVehicles_ EXCEPT ![nextVehicle] = storedVehicle]
         /\ connected' = [connected EXCEPT ![nextVehicle] = TRUE]
         /\ nextVehicle' = nextVehicle + 1
         /\ locked' = synchronizeAccessForVehicle(locked, storedVehicle, nextVehicle,
                                                  players)

CreateEntity(storedVehicle) ==
    /\ ~disposed_
    /\ createEntity(storedVehicle)
    /\ UNCHANGED << respawnTokens_, pinned_, disposed_, timers, sweep, occupantCount,
                    trailer, nextToken, players >>
    /\ UNCHANGED << streamVars, otherFeatureVars >>

\* createEntity(storedVehicle) when entities_.createVehicle() fails: the
\* primitive reports the failure either by throwing, and createEntity is left
\* at that line, or by returning null, and createEntity goes on with the null.
createEntityFailed(storedVehicle) ==
    \/ UNCHANGED << vehicles_, storedVehicles_ >>
    \/ /\ vehicles_' = [vehicles_ EXCEPT ![storedVehicle] = Null]
       /\ storedVehicles_' = [storedVehicles_ EXCEPT ![Null] = storedVehicle]

CreateEntityFails(storedVehicle) ==
    /\ ~disposed_
    /\ ~createEntityThrows(storedVehicle)
    /\ createEntityFailed(storedVehicle)
    /\ locked' = synchronizeAccessForVehicle(locked, storedVehicle,
                                             vehicles_'[storedVehicle], players)
    /\ UNCHANGED << respawnTokens_, pinned_, disposed_, timers, sweep, connected,
                    occupantCount, trailer, nextVehicle, nextToken, players >>
    /\ UNCHANGED << streamVars, otherFeatureVars >>

\* Mutant: deleteEntity forgets this.storedVehicles_.delete(vehicle).
deleteEntity_KeepsStoredVehicle(storedVehicle) ==
    LET vehicle == vehicles_[storedVehicle] IN
    IF vehicle \in {None, Null}
    THEN UNCHANGED << vehicles_, storedVehicles_, connected, occupantCount, trailer,
                      locked >>
    ELSE /\ vehicles_' = [vehicles_ EXCEPT ![storedVehicle] = None]
         /\ UNCHANGED storedVehicles_
         /\ IF connected[vehicle]
            THEN disposeVehicles({vehicle})
            ELSE UNCHANGED << connected, occupantCount, trailer, locked >>

\* !this.vehicles_.get(storedVehicle): deleteEntity throws
\* 'Attempting to delete an invalid vehicle.'
deleteEntityThrows(storedVehicle) == vehicles_[storedVehicle] \in {None, Null}

\* Mutant: the death hook is called before deleteEntity looks for the vehicle.
deleteEntityCalls_HookFirst(st, storedVehicle) ==
    LET vehicle == vehicles_[storedVehicle]
        st1 == callDeathFn(st, vehicle, storedVehicle)
    IN IF deleteEntityThrows(storedVehicle) THEN st1
       ELSE IF connected[vehicle]
       THEN [st1 EXCEPT !.effects = Append(@, Eff("dispose", vehicle, storedVehicle, None))]
       ELSE st1

\* The calls deleteEntity makes: the death hook, then vehicle.dispose().
deleteEntityCalls(st, storedVehicle) ==
    LET vehicle == vehicles_[storedVehicle]
        st1 == callDeathFn(st, vehicle, storedVehicle)
    IN IF deleteEntityThrows(storedVehicle) THEN st
       ELSE IF connected[vehicle]
       THEN [st1 EXCEPT !.effects = Append(@, Eff("dispose", vehicle, storedVehicle, None))]
       ELSE st1

\* deleteEntity(storedVehicle): throws when the stored vehicle is not live, and
\* then changes nothing.
deleteEntity(storedVehicle) ==
    LET vehicle == vehicles_[storedVehicle] IN
    IF deleteEntityThrows(storedVehicle)
    THEN UNCHANGED << vehicles_, storedVehicles_, connected, occupantCount, trailer,
                      locked >>
    ELSE /\ vehicles_' = [vehicles_ EXCEPT ![storedVehicle] = None]
         /\ storedVehicles_' = [storedVehicles_ EXCEPT ![vehicle] = None]
         /\ IF connected[vehicle]
            THEN disposeVehicles({vehicle})
            ELSE UNCHANGED << connected, occupantCount, trailer, locked >>

DeleteEntity(storedVehicle) ==
    /\ ~disposed_
    /\ deleteEntity(storedVehicle)
    /\ UNCHANGED << respawnTokens_, pinned_, disposed_, timers, sweep, nextVehicle,
                    nextToken, players >>
    /\ UNCHANGED << streamVars, otherFeatureVars >>

\* Mutant: the respawn takes the vehicle out of the vehicles_ map.
FireTimer_DropsEntity(timer) ==
    /\ timer \in timers
    /\ Commit([respawnTimerFired(St, timer) EXCEPT !.timers = @ \ {timer}])
    /\ vehicles_' = [s \in StoredVehicles |->
                        IF vehicles_[s] = timer.vehicle THEN None ELSE vehicles_[s]]
    /\ UNCHANGED << storedVehicles_, disposed_, sweep, connected,
                    occupantCount, trailer, nextVehicle,
                    players, locked >>
    /\ UNCHANGED << streamVars, otherFeatureVars >>

\* A respawn timer fires: scheduleVehicleForRespawn resumes after its await.
FireTimer(timer) ==
    /\ timer \in timers
    /\ Commit([respawnTimerFired(St, timer) EXCEPT !.timers = @ \ {timer}])
    /\ UNCHANGED << vehicles_, storedVehicles_, disposed_, sweep, connected,
                    occupantCount, trailer, nextVehicle,
                    players, locked >>
    /\ UNCHANGED << streamVars, otherFeatureVars >>

\* processUnoccupiedVehicleUpdates wakes up: it stops when the streamer was
\* disposed of, and runs one pass otherwise. |reading| is what the engine
\* reports for each live vehicle during the pass.
Sweep ==
    /\ sweep = "waiting"
    /\ IF disposed_
       THEN /\ sweep' = "done"
            /\ Commit(St)
       ELSE /\ sweep' = "waiting"
            /\ \E reading \in SweepReadings :
                  Commit(sweepFrom(St, 1, reading))
    /\ UNCHANGED << vehicles_, storedVehicles_, disposed_, connected, occupantCount,
                    trailer, nextVehicle,
                    players, locked >>
    /\ UNCHANGED << streamVars, otherFeatureVars >>

\* respawnUnoccupiedVehicles().
RespawnUnoccupiedVehicles ==
    /\ ~disposed_
    /\ Commit(respawnUnoccupiedFrom(St, 1))
    /\ UNCHANGED << vehicles_, storedVehicles_, disposed_, sweep, connected,
                    occupantCount, trailer, nextVehicle,
                    players, locked >>
    /\ UNCHANGED << streamVars, otherFeatureVars >>

\* A player enters |vehicle|: the PlayerManager calls onPlayerEnterVehicle.
\* The streamer never reads the occupants of a vehicle it does not manage.
EnterVehicle(vehicle) ==
    /\ ~disposed_
    /\ connected[vehicle]
    /\ occupantCount[vehicle] < MaxOccupants
    /\ occupantCount' = IF storedVehicles_[vehicle] = None THEN occupantCount
                        ELSE [occupantCount EXCEPT ![vehicle] = @ + 1]
    /\ Commit(onPlayerEnterVehicle(St, vehicle))
    /\ UNCHANGED << vehicles_, storedVehicles_, disposed_, sweep, connected, trailer,
                    nextVehicle,
                    players, locked >>
    /\ UNCHANGED << streamVars, otherFeatureVars >>

\* A player leaves |vehicle|: onPlayerLeaveVehicle runs while the player still
\* counts as an occupant.
LeaveVehicle(vehicle) ==
    /\ ~disposed_
    /\ connected[vehicle]
    /\ occupantCount[vehicle] > 0
    /\ occupantCount' = [occupantCount EXCEPT ![vehicle] = @ - 1]
    /\ Commit(onPlayerLeaveVehicle(St, vehicle))
    /\ UNCHANGED << vehicles_, storedVehicles_, disposed_, sweep, connected, trailer,
                    nextVehicle,
                    players, locked >>
    /\ UNCHANGED << streamVars, otherFeatureVars >>

\* |attached| is attached to |vehicle| as its trailer.
AttachTrailer(vehicle, attached) ==
    /\ ~disposed_
    /\ vehicle # attached
    /\ connected[vehicle] /\ connected[attached]
    /\ trailer[vehicle] = None
    /\ parent(attached) = None
    /\ attached \notin towing(vehicle)
    /\ trailer' = [trailer EXCEPT ![vehicle] = attached]
    /\ Commit(onTrailerAttached(St, vehicle, attached))
    /\ UNCHANGED << vehicles_, storedVehicles_, disposed_, sweep, connected,
                    occupantCount, nextVehicle,
                    players, locked >>
    /\ UNCHANGED << streamVars, otherFeatureVars >>

\* The trailer of |vehicle| is detached from it.
DetachTrailer(vehicle) ==
    /\ ~disposed_
    /\ trailer[vehicle] # None
    /\ trailer' = [trailer EXCEPT ![vehicle] = None]
    /\ Commit(onTrailerDetached(St, vehicle, trailer[vehicle]))
    /\ UNCHANGED << vehicles_, storedVehicles_, disposed_, sweep, connected,
                    occupantCount, nextVehicle,
                    players, locked >>
    /\ UNCHANGED << streamVars, otherFeatureVars >>

\* |vehicle| is destroyed in the game: the VehicleManager calls onVehicleDeath.
VehicleDeath(vehicle) ==
    /\ ~disposed_
    /\ connected[vehicle]
    /\ Commit(onVehicleDeath(St, vehicle))
    /\ UNCHANGED << vehicles_, storedVehicles_, disposed_, sweep, connected,
                    occupantCount, trailer, nextVehicle,
                    players, locked >>
    /\ UNCHANGED << streamVars, otherFeatureVars >>

\* |vehicle| has spawned: the VehicleManager calls onVehicleSpawn.
VehicleSpawn(vehicle) ==
    /\ ~disposed_
    /\ connected[vehicle]
    /\ \E reading \in Readings : Commit(onVehicleSpawn(St, vehicle, reading))
    /\ UNCHANGED << vehicles_, storedVehicles_, disposed_, sweep, connected,
                    occupantCount, trailer, nextVehicle,
                    players, locked >>
    /\ UNCHANGED << streamVars, otherFeatureVars >>

\* Another feature creates a vehicle that the streamer does not manage.
ExternalCreate ==
    /\ ~disposed_
    /\ nextVehicle <= MaxVehicles
    /\ connected' = [connected EXCEPT ![nextVehicle] = TRUE]
    /\ nextVehicle' = nextVehicle + 1
    /\ UNCHANGED << vehicles_, storedVehicles_, respawnTokens_, pinned_, disposed_,
                    timers, sweep, occupantCount, trailer, nextToken,
                    players, locked >>
    /\ UNCHANGED << streamVars, otherFeatureVars >>

\* A managed vehicle is disposed of behind the streamer's back.
ExternalDispose(vehicle) ==
    /\ ~disposed_
    /\ connected[vehicle]
    /\ storedVehicles_[vehicle] # None
    /\ disposeVehicles({vehicle})
    /\ UNCHANGED << vehicles_, storedVehicles_, respawnTokens_, pinned_, disposed_,
                    timers, sweep, nextVehicle, nextToken, players >>
    /\ UNCHANGED << streamVars, otherFeatureVars >>

\* Mutant: dispose() does not clear the token table.
dispose_KeepsTokens ==
    /\ disposed_' = TRUE
    /\ respawnTokens_' = respawnTokens_
    /\ vehicles_' = [s \in StoredVehicles |-> None]
    /\ storedVehicles_' = [v \in VehicleKeys |-> None]
    /\ disposeVehicles({ v \in Vehicles : storedVehicles_[v] # None })

\* dispose() of the streamer; entities_.dispose() disposes of its vehicles.
dispose ==
    /\ disposed_' = TRUE
    /\ respawnTokens_' = [v \in Vehicles |-> None]
    /\ vehicles_' = [s \in StoredVehicles |-> None]
    /\ storedVehicles_' = [v \in VehicleKeys |-> None]
    /\ disposeVehicles({ v \in Vehicles : storedVehicles_[v] # None })

Dispose ==
    /\ ~disposed_
    /\ dispose
    /\ UNCHANGED << pinned_, timers, sweep, nextVehicle, nextToken, players >>
    /\ UNCHANGED << streamVars, otherFeatureVars >>

Next ==
    \/ \E s \in StoredVehicles : CreateEntity(s)
    \/ \E s \in StoredVehicles : DeleteEntity(s)
    \/ \E timer \in timers : FireTimer(timer)
    \/ Sweep
    \/ RespawnUnoccupiedVehicles
    \/ \E v \in Vehicles : EnterVehicle(v)
    \/ \E v \in Vehicles : LeaveVehicle(v)
    \/ \E v, t \in Vehicles : AttachTrailer(v, t)
    \/ \E v \in Vehicles : DetachTrailer(v)
    \/ \E v \in Vehicles : VehicleDeath(v)
    \/ \E v \in Vehicles : VehicleSpawn(v)
    \/ ExternalCreate
    \/ \E v \in Vehicles : ExternalDispose(v)
    \/ Dispose

Spec == Init /\ [][Next]_vars

\* The respawn timers fire: `await seconds(respawnTime)` returns.
FairSpec == Spec /\ WF_vars(\E timer \in timers : FireTimer(timer))

\* ------------------------------------------------- players and access
\* The PlayerManager's events, each with the callback the streamer observes.
\* onPlayerConnect(player): synchronizeAccessForPlayer, then the base class.
PlayerConnect(player) ==
    /\ ~disposed_
    /\ players[player] = "offline"
    /\ players' = [players EXCEPT ![player] = "guest"]
    /\ locked' = synchronizeAccessForPlayer(locked, player, "guest", LiveStoredVehicles)
    /\ UNCHANGED << vehicles_, storedVehicles_, respawnTokens_, pinned_, disposed_,
                    timers, sweep, connected, occupantCount, trailer, nextVehicle,
                    nextToken >>
    /\ UNCHANGED << streamVars, otherFeatureVars >>

\* onPlayerLogin(player).
PlayerLogin(player) ==
    /\ ~disposed_
    /\ players[player] = "guest"
    /\ players' = [players EXCEPT ![player] = "member"]
    /\ locked' = synchronizeAccessForPlayer(locked, player, "member", LiveStoredVehicles)
    /\ UNCHANGED << vehicles_, storedVehicles_, respawnTokens_, pinned_, disposed_,
                    timers, sweep, connected, occupantCount, trailer, nextVehicle,
                    nextToken >>
    /\ UNCHANGED << streamVars, otherFeatureVars >>

\* onPlayerLevelChange(player): the player's rights were taken away.
PlayerLevelChange(player) ==
    /\ ~disposed_
    /\ players[player] = "member"
    /\ players' = [players EXCEPT ![player] = "guest"]
    /\ locked' = synchronizeAccessForPlayer(locked, player, "guest", LiveStoredVehicles)
    /\ UNCHANGED << vehicles_, storedVehicles_, respawnTokens_, pinned_, disposed_,
                    timers, sweep, connected, occupantCount, trailer, nextVehicle,
                    nextToken >>
    /\ UNCHANGED << streamVars, otherFeatureVars >>

\* The player leaves the server; the engine forgets the player's locks.
PlayerDisconnect(player) ==
    /\ ~disposed_
    /\ players[player] # "offline"
    /\ players' = [players EXCEPT ![player] = "offline"]
    /\ locked' = { l \in locked : l[2] # player }
    /\ UNCHANGED << vehicles_, storedVehicles_, respawnTokens_, pinned_, disposed_,
                    timers, sweep, connected, occupantCount, trailer, nextVehicle,
                    nextToken >>
    /\ UNCHANGED << streamVars, otherFeatureVars >>

\* The streamer with the players of the server: vehicles are created and
\* deleted while players connect, log in, lose their rights and leave.
AccessNext ==
    \/ \E s \in StoredVehicles : CreateEntity(s)
    \/ \E s \in StoredVehicles : DeleteEntity(s)
    \/ \E p \in Players : PlayerConnect(p)
    \/ \E p \in Players : PlayerLogin(p)
    \/ \E p \in Players : PlayerLevelChange(p)
    \/ \E p \in Players : PlayerDisconnect(p)
    \/ Dispose

AccessSpec == Init /\ [][AccessNext]_vars

\* The streamer when entities_.createVehicle() can fail, with the operations
\* that look a vehicle up by its stored vehicle or by the vehicle itself.
FailNext ==
    \/ \E s \in StoredVehicles : CreateEntity(s)
    \/ \E s \in StoredVehicles : CreateEntityFails(s)
    \/ \E s \in StoredVehicles : DeleteEntity(s)
    \/ \E timer \in timers : FireTimer(timer)
    \/ \E v \in Vehicles : EnterVehicle(v)
    \/ \E v \in Vehicles : LeaveVehicle(v)
    \/ \E v \in Vehicles : VehicleDeath(v)
    \/ Dispose

FailSpec == Init /\ [][FailNext]_vars

\* =================================================================
\* The Lifecycle Controller that VehicleStreamer extends
\* =================================================================
\* The controller owns the set of registered stored vehicles and runs the
\* streaming pass; it materializes through createEntity and dematerializes
\* through deleteEntity. A pass suspends at every engine call, so that every
\* call is a step of its own and other operations run in between.

\* The order in which a streaming pass applies its two kinds of changes.
phaseOrder_MaterializeFirst == << "materialize", "dematerialize" >>
phaseOrder == << "dematerialize", "materialize" >>

\* The phase that follows |phase| in a pass, "idle" after the last one.
nextPhase(phase) ==
    IF phase = phaseOrder[1] THEN phaseOrder[2] ELSE "idle"

\* The stored vehicles among |among|, nearest first, equal distances in the
\* order of their identity.
RECURSIVE nearestFirst(_, _)
nearestFirst(among, distance) ==
    IF among = {} THEN << >>
    ELSE LET first == CHOOSE s \in among :
                          \A t \in among :
                              \/ distance[s] < distance[t]
                              \/ distance[s] = distance[t] /\ s <= t
         IN  << first >> \o nearestFirst(among \ {first}, distance)

\* The first |n| elements of |seq|.
take(seq, n) == SubSeq(seq, 1, IF n < Len(seq) THEN n ELSE Len(seq))

\* The admission policy. |distance| gives for each stored vehicle the distance
\* to the nearest observer; the candidates are the registered ones in range.
select(distance, currentlyLive, pinnedOnes, maxVisible) ==
    LET candidates == { s \in registered : distance[s] <= StreamingDistance }
        kept == currentlyLive \cap (pinnedOnes \cup candidates)
        remaining == maxVisible - Cardinality(kept)
    IN  [toDematerialize |-> currentlyLive \ kept,
         toMaterialize |-> take(nearestFirst(candidates \ currentlyLive, distance),
                                IF remaining > 0 THEN remaining ELSE 0)]

\* The stored vehicles that are pinned under at least one type.
PinnedOnes == { s \in StoredVehicles : isPinned(St, s) }

\* stream(): the pass that is in flight after the call.
streamStart_Restarts(inFlight, distance) ==
    LET selected == select(distance, LiveStoredVehicles, PinnedOnes, MaxVisible)
    IN  [phase |-> phaseOrder[1],
         toDematerialize |-> selected.toDematerialize,
         toMaterialize |-> selected.toMaterialize]
streamStart(inFlight, distance) ==
    IF inFlight.phase # "idle" THEN inFlight
    ELSE LET selected == select(distance, LiveStoredVehicles, PinnedOnes, MaxVisible)
         IN  [phase |-> phaseOrder[1],
              toDematerialize |-> selected.toDematerialize,
              toMaterialize |-> selected.toMaterialize]

\* What a resumed pass validates before it dematerializes |storedVehicle|.
mayDematerialize_IgnoresPins(storedVehicle) == vehicles_[storedVehicle] # None
mayDematerialize(storedVehicle) ==
    /\ vehicles_[storedVehicle] # None
    /\ ~isPinned(St, storedVehicle)

\* There is room for one more live vehicle.
hasCapacity_Always == TRUE
hasCapacity == Cardinality(LiveStoredVehicles) < MaxVisible

\* What a resumed pass validates before it materializes |storedVehicle|.
mayMaterialize(storedVehicle) ==
    /\ storedVehicle \in registered
    /\ vehicles_[storedVehicle] = None
    /\ hasCapacity

\* delete(storedVehicle) finds the stored vehicle, and returns true.
deleteFinds_Always(storedVehicle) == TRUE
deleteFinds(storedVehicle) == storedVehicle \in registered

\* delete(storedVehicle) dematerializes: it calls deleteEntity.
deleteDematerializes(storedVehicle) ==
    /\ deleteFinds(storedVehicle)
    /\ vehicles_[storedVehicle] # None

\* What the operations of the controller leave alone in the streamer.
engineVars == << vehicles_, storedVehicles_, connected, occupantCount, trailer, locked >>
schedulingVars == << respawnTokens_, pinned_, timers, nextToken >>

\* add(storedVehicle): false, and nothing else, when it is registered already.
\* A vehicle that is not added lazily is a candidate of the next pass.
Add(storedVehicle) ==
    /\ ~disposed_
    /\ registered' = registered \cup {storedVehicle}
    /\ UNCHANGED << engineVars, schedulingVars, disposed_, sweep, nextVehicle, players,
                    pass, otherFeatureVars >>

\* delete(storedVehicle): dematerializes if live, then unregisters.
Delete(storedVehicle) ==
    /\ ~disposed_
    /\ IF deleteFinds(storedVehicle)
       THEN /\ registered' = registered \ {storedVehicle}
            /\ IF vehicles_[storedVehicle] # None
               THEN deleteEntity(storedVehicle)
               ELSE UNCHANGED engineVars
       ELSE UNCHANGED << registered, engineVars >>
    /\ UNCHANGED << schedulingVars, disposed_, sweep, nextVehicle, players, pass,
                    otherFeatureVars >>

\* pin(storedVehicle, type) and unpin(storedVehicle, type).
Pin(storedVehicle, type) ==
    /\ ~disposed_
    /\ Commit(pin(St, vehicles_[storedVehicle], storedVehicle, type))
    /\ UNCHANGED << engineVars, disposed_, sweep, nextVehicle, players, streamVars,
                    otherFeatureVars >>

Unpin(storedVehicle, type) ==
    /\ ~disposed_
    /\ Commit(unpin(St, vehicles_[storedVehicle], storedVehicle, type))
    /\ UNCHANGED << engineVars, disposed_, sweep, nextVehicle, players, streamVars,
                    otherFeatureVars >>

\* stream(), with the observers at |distance| of the stored vehicles.
Stream(distance) ==
    /\ ~disposed_
    /\ pass' = streamStart(pass, distance)
    /\ UNCHANGED << engineVars, schedulingVars, disposed_, sweep, nextVehicle, players,
                    registered, otherFeatureVars >>

\* The pass resumes and dematerializes one of the vehicles it selected.
StreamDematerialize(storedVehicle) ==
    /\ ~disposed_
    /\ pass.phase = "dematerialize"
    /\ storedVehicle \in pass.toDematerialize
    /\ pass' = [pass EXCEPT !.toDematerialize = @ \ {storedVehicle}]
    /\ IF mayDematerialize(storedVehicle)
       THEN deleteEntity(storedVehicle)
       ELSE UNCHANGED engineVars
    /\ UNCHANGED << schedulingVars, disposed_, sweep, nextVehicle, players, registered,
                    otherFeatureVars >>

\* The pass resumes and materializes the nearest of the vehicles it selected.
StreamMaterialize ==
    /\ ~disposed_
    /\ pass.phase = "materialize"
    /\ pass.toMaterialize # << >>
    /\ pass' = [pass EXCEPT !.toMaterialize = Tail(@)]
    /\ IF mayMaterialize(Head(pass.toMaterialize))
       THEN createEntity(Head(pass.toMaterialize))
       ELSE UNCHANGED << vehicles_, storedVehicles_, connected, nextVehicle, locked >>
    /\ UNCHANGED << schedulingVars, disposed_, sweep, occupantCount, trailer, players,
                    registered, otherFeatureVars >>

\* The pass has applied every change of its phase and goes on to the next.
StreamPhaseDone ==
    /\ ~disposed_
    /\ \/ pass.phase = "dematerialize" /\ pass.toDematerialize = {}
       \/ pass.phase = "materialize" /\ pass.toMaterialize = << >>
    /\ pass' = [pass EXCEPT !.phase = nextPhase(@)]
    /\ UNCHANGED << engineVars, schedulingVars, disposed_, sweep, nextVehicle, players,
                    registered, otherFeatureVars >>

StreamInit ==
    /\ EngineInit
    /\ registered = {}
    /\ pass = IdlePass
    /\ FeaturesInit

StreamNext ==
    \/ \E s \in StoredVehicles : Add(s)
    \/ \E s \in StoredVehicles : Delete(s)
    \/ \E s \in StoredVehicles, type \in PinTypes : Pin(s, type)
    \/ \E s \in StoredVehicles, type \in PinTypes : Unpin(s, type)
    \/ \E distance \in [StoredVehicles -> Distances] : Stream(distance)
    \/ \E s \in StoredVehicles : StreamDematerialize(s)
    \/ StreamMaterialize
    \/ StreamPhaseDone
    \/ \E v \in Vehicles : EnterVehicle(v)
    \/ \E v \in Vehicles : LeaveVehicle(v)
    \/ \E timer \in timers : FireTimer(timer)

StreamSpec == StreamInit /\ [][StreamNext]_vars

\* =================================================================
\* The observers of the GangManager
\* =================================================================
\* The observers that a change of membership notifies.
notifyObservers_Everyone == Observers
notifyObservers == observers_

\* What a notification does to the counter of each observer.
notified(count) ==
    [o \in Observers |-> IF o \in notifyObservers THEN count[o] + 1 ELSE count[o]]

\* Every observer that is notified can still count.
CanCount(count) == \A o \in Observers : count[o] < MaxEvents

AddObserver(observer) ==
    /\ observers_' = observers_ \cup {observer}
    /\ UNCHANGED << gangPlayers, joinedUserCount, leftUserCount, exceptGangVars >>

RemoveObserver(observer) ==
    /\ observers_' = observers_ \ {observer}
    /\ UNCHANGED << gangPlayers, joinedUserCount, leftUserCount, exceptGangVars >>

\* createGangForPlayer(player, ...): the player joins the gang that is created.
CreateGangForPlayer(player) ==
    /\ player \notin gangPlayers
    /\ CanCount(joinedUserCount)
    /\ gangPlayers' = gangPlayers \cup {player}
    /\ joinedUserCount' = notified(joinedUserCount)
    /\ UNCHANGED << observers_, leftUserCount, exceptGangVars >>

\* removePlayerFromGang(player, gang).
RemovePlayerFromGang(player) ==
    /\ player \in gangPlayers
    /\ CanCount(leftUserCount)
    /\ gangPlayers' = gangPlayers \ {player}
    /\ leftUserCount' = notified(leftUserCount)
    /\ UNCHANGED << observers_, joinedUserCount, exceptGangVars >>

GangNext ==
    \/ \E o \in Observers : AddObserver(o)
    \/ \E o \in Observers : RemoveObserver(o)
    \/ \E p \in Players : CreateGangForPlayer(p)
    \/ \E p \in Players : RemovePlayerFromGang(p)

GangSpec == Init /\ [][GangNext]_vars

\* The operations on a Pickup.
\* The PickupManager calls scheduleRespawn() on a pickup it has not disposed of.
ScheduleRespawn ==
    /\ manager_ # "null"
    /\ pickupTimers < MaxPending
    /\ CommitPickup(scheduleRespawn(PickupSt))
    /\ pickupTimers' = pickupTimers + 1
    /\ UNCHANGED exceptPickupVars

\* `await seconds(this.respawnDelay_)` returns in one of the pending calls.
PickupTimerFires(created) ==
    /\ pickupTimers > 0
    /\ CommitPickup(scheduleRespawnResumed(PickupSt, created))
    /\ pickupTimers' = pickupTimers - 1
    /\ UNCHANGED exceptPickupVars

\* dispose() of a pickup that was not disposed of before.
DisposePickup ==
    /\ manager_ # "null"
    /\ CommitPickup(disposePickup(PickupSt))
    /\ UNCHANGED << pickupTimers, exceptPickupVars >>

PickupNext ==
    \/ ScheduleRespawn
    \/ \E created \in BOOLEAN : PickupTimerFires(created)
    \/ DisposePickup

\* The Pickup after its constructor, whether the server created the pickup or not.
PickupSpecInit ==
    /\ EngineInit
    /\ registered = StoredVehicles
    /\ pass = IdlePass
    /\ GangInit
    /\ \E created \in BOOLEAN : PickupInit(created)
    /\ ChatInit({}, {}, [p \in Players |-> 0])
    /\ DebugInit
    /\ MessageInit

PickupSpec == PickupSpecInit /\ [][PickupNext]_vars

\* =================================================================
\* GangChatManager
\* =================================================================
\* What a player can type: a message that is not for gang chat, '!text',
\* '!!TAG text' with the tag of the gang, and '!!TAG text' with no such gang.
TextKinds == {"plain", "own", "remote", "unknown"}

\* What onPlayerText has done so far: who was sent |message| how often, and
\* the |recipients| set.
ChatSt ==
    [received |-> [p \in Players |-> 0], recipients |-> {},
     spyingPlayer_ |-> spyingPlayer_]

\* player.sendMessage(message); recipients.add(player).
sendMessage(c, player) ==
    [c EXCEPT !.received[player] = @ + 1, !.recipients = @ \cup {player}]

\* `for (let member of gang.members)`, over the members from |member| on.
RECURSIVE sendToMembers(_, _)
sendToMembers(c, member) ==
    IF member > NumPlayers THEN c
    ELSE IF member \in chatMembers
         THEN sendToMembers(sendMessage(c, member), member + 1)
         ELSE sendToMembers(c, member + 1)

\* server.playerManager.forEach(...), over the players from |onlinePlayer| on.
RECURSIVE sendToAdministrators(_, _)
sendToAdministrators(c, onlinePlayer) ==
    IF onlinePlayer > NumPlayers THEN c
    ELSE IF onlinePlayer \notin chatAdmins
         THEN sendToAdministrators(c, onlinePlayer + 1)
         ELSE IF onlinePlayer \in c.recipients
         THEN sendToAdministrators(c, onlinePlayer + 1)
         ELSE IF messageLevel[onlinePlayer] < 2
         THEN sendToAdministrators(c, onlinePlayer + 1)
         ELSE sendToAdministrators(sendMessage(c, onlinePlayer), onlinePlayer + 1)

\* The end of onPlayerText: the player who is spying on the gang chat.
sendToSpyingPlayer(c) ==
    IF c.spyingPlayer_ = None THEN c
    ELSE IF ~spyConnected THEN [c EXCEPT !.spyingPlayer_ = None]
    ELSE IF c.spyingPlayer_ \in c.recipients THEN c
    ELSE sendMessage(c, c.spyingPlayer_)

\* onPlayerText(event) of |player| with a text of |kind|, as far as the
\* formatted gang-chat message goes.
onPlayerText(player, kind) ==
    IF kind = "plain" \/ (kind \in {"remote", "unknown"} /\ player \notin chatAdmins)
    THEN ChatSt
    ELSE IF kind \in {"remote", "unknown"}
    THEN IF kind = "unknown" THEN ChatSt
         ELSE sendToSpyingPlayer(
                  sendToAdministrators(
                      sendToMembers(sendMessage(ChatSt, player), 1), 1))
    ELSE IF player \notin chatMembers THEN ChatSt
         ELSE sendToSpyingPlayer(sendToAdministrators(sendToMembers(ChatSt, 1), 1))

\* A player sends a text to the chat box.
OnPlayerText(player, kind) ==
    /\ received' = onPlayerText(player, kind).received
    /\ spyingPlayer_' = onPlayerText(player, kind).spyingPlayer_
    /\ UNCHANGED << chatAdmins, chatMembers, messageLevel, spyConnected, exceptChatVars >>

\* onSetiOwnershipChange(event): the player with the id of the event, if any,
\* spies on the gang chat from now on.
OnSetiOwnershipChange(player) ==
    /\ spyingPlayer_' = player
    /\ spyConnected' = (player # None)
    /\ UNCHANGED << chatAdmins, chatMembers, messageLevel, received, exceptChatVars >>

\* The player who is spying disconnects.
SpyDisconnects ==
    /\ spyingPlayer_ # None
    /\ spyConnected
    /\ spyConnected' = FALSE
    /\ UNCHANGED << chatAdmins, chatMembers, messageLevel, spyingPlayer_, received,
                    exceptChatVars >>

\* The players are administrators, members of the gang and listeners in any
\* combination.
ChatSpecInit ==
    /\ EngineInit
    /\ registered = StoredVehicles
    /\ pass = IdlePass
    /\ GangInit
    /\ PickupInit(TRUE)
    /\ \E admins \in SUBSET Players, members \in SUBSET Players,
          level \in [Players -> {0, 2}] : ChatInit(admins, members, level)
    /\ DebugInit
    /\ MessageInit

ChatNext ==
    \/ \E player \in Players, kind \in TextKinds : OnPlayerText(player, kind)
    \/ \E player \in Players \cup {None} : OnSetiOwnershipChange(player)
    \/ SpyDisconnects

ChatSpec == ChatSpecInit /\ [][ChatNext]_vars

\* =================================================================
\* SendClientMessagePrivate
\* =================================================================
\* The characters of a message: the space and one that is not a space.
Characters == {" ", "a"}

\* The messages of at most MaxMessageLength characters.
Messages == UNION { [1..n -> Characters] : n \in 0..MaxMessageLength }

\* The `for (new index = 143; index > 0; index--)` loop from |index| on: the
\* index of the space at which the text is split, 0 when the loop ends
\* without a split. Pawn counts the cells of the string from 0.
RECURSIVE splitIndexFrom(_, _)
splitIndexFrom(textBuffer, index) ==
    IF index <= 0 THEN 0
    ELSE IF textBuffer[index + 1] # " " THEN splitIndexFrom(textBuffer, index - 1)
    ELSE index

\* SendClientMessagePrivate(playerid, color, message): the texts that are
\* given to the native SendClientMessage, in the order of the calls.
RECURSIVE SendClientMessagePrivate(_)
SendClientMessagePrivate(text) ==
    IF Len(text) > MessageLimit
    THEN LET index == splitIndexFrom(text, MessageLimit)
         IN  IF index = 0 THEN << >>
             ELSE SendClientMessagePrivate(SubSeq(text, 1, index))
                      \o SendClientMessagePrivate(SubSeq(text, index + 1, Len(text)))
    ELSE << text >>

\* A message is sent to a player.
SendMessage(text) ==
    /\ message' = text
    /\ delivered' = SendClientMessagePrivate(text)
    /\ UNCHANGED exceptMessageVars

MessageNext == \E text \in Messages : SendMessage(text)

MessageSpec == Init /\ [][MessageNext]_vars

\* =================================================================
\* Debug: objects attached to players
\* =================================================================
\* The ids that CreateObject can return.
ObjectIds == 1..MaxObjects

\* What the methods of Debug read and write, and the objects for which they
\* called DestroyObject.
DebugSt ==
    [attachedObjects_ |-> attachedObjects_, engineObjects |-> engineObjects,
     destroyed |-> {}, destroyedTwice |-> destroyedTwice]

\* pawnInvoke('DestroyObject', 'i', objectId) for every id of |objects|.
DestroyObjects(d, objects) ==
    [d EXCEPT !.engineObjects = @ \ objects,
              !.destroyed = @ \cup objects,
              !.destroyedTwice = @ \/ ~(objects \subseteq d.engineObjects)
                                   \/ objects \cap d.destroyed # {}]

\* Mutant: the objects of the player are destroyed but the entry is kept.
onPlayerDisconnect_KeepsEntry(d, player) ==
    IF ~d.attachedObjects_[player].has THEN d
    ELSE DestroyObjects(d, d.attachedObjects_[player].objects)

\* onPlayerDisconnect(player).
onPlayerDisconnect(d, player) ==
    IF ~d.attachedObjects_[player].has THEN d
    ELSE [DestroyObjects(d, d.attachedObjects_[player].objects) EXCEPT
             !.attachedObjects_[player] = [has |-> FALSE, objects |-> {}]]

\* attach(player, subject, modelId, x, y, z), with |objectId| the id that
\* CreateObject returns.
attach(d, subject, objectId) ==
    LET withEntry == IF ~d.attachedObjects_[subject].has
                     THEN [d EXCEPT !.attachedObjects_[subject] =
                                        [has |-> TRUE, objects |-> {}]]
                     ELSE d
    IN  [withEntry EXCEPT !.engineObjects = @ \cup {objectId},
                          !.attachedObjects_[subject].objects = @ \cup {objectId}]

\* detach(player, subject).
detach(d, subject) == onPlayerDisconnect(d, subject)

\* The loop of dispose() over the entries from |player| on, and the clear().
RECURSIVE disposeDebug(_, _)
disposeDebug(d, player) ==
    IF player > NumPlayers
    THEN [d EXCEPT !.attachedObjects_ = [p \in Players |-> [has |-> FALSE, objects |-> {}]]]
    ELSE IF d.attachedObjects_[player].has
         THEN disposeDebug(DestroyObjects(d, d.attachedObjects_[player].objects),
                           player + 1)
         ELSE disposeDebug(d, player + 1)

\* The fields after a method has run.
CommitDebug(d) ==
    /\ attachedObjects_' = d.attachedObjects_
    /\ engineObjects' = d.engineObjects
    /\ destroyedTwice' = d.destroyedTwice

\* /pattach: the server creates an object with an id that is not in use.
Attach(subject, objectId) ==
    /\ ~debugDisposed
    /\ objectId \in ObjectIds \ engineObjects
    /\ CommitDebug(attach(DebugSt, subject, objectId))
    /\ UNCHANGED << debugDisposed, exceptDebugVars >>

\* /pdetach.
Detach(subject) ==
    /\ ~debugDisposed
    /\ CommitDebug(detach(DebugSt, subject))
    /\ UNCHANGED << debugDisposed, exceptDebugVars >>

\* A player disconnects while the feature observes the PlayerManager.
OnPlayerDisconnect(player) ==
    /\ ~debugDisposed
    /\ CommitDebug(onPlayerDisconnect(DebugSt, player))
    /\ UNCHANGED << debugDisposed, exceptDebugVars >>

\* dispose().
DisposeDebug ==
    /\ ~debugDisposed
    /\ debugDisposed' = TRUE
    /\ CommitDebug(disposeDebug(DebugSt, 1))
    /\ UNCHANGED exceptDebugVars

DebugNext ==
    \/ \E subject \in Players, objectId \in ObjectIds : Attach(subject, objectId)
    \/ \E subject \in Players : Detach(subject)
    \/ \E player \in Players : OnPlayerDisconnect(player)
    \/ DisposeDebug

DebugSpec == Init /\ [][DebugNext]_vars

\* =================================================================
\* Properties
\* =================================================================

\* What a callback left of the state it was given: nothing written, no call made.
NoEffect(st) ==
    /\ st.effects = << >>
    /\ st.pinned_ = pinned_
    /\ st.respawnTokens_ = respawnTokens_
    /\ st.timers = timers
    /\ st.nextToken = nextToken

\* The calls of kind |kind| in |eff| that are about |vehicle|.
Calls(eff, kind, vehicle) ==
    { i \in DOMAIN eff : eff[i].kind = kind /\ eff[i].vehicle = vehicle }

\* C1: vehicles_ and storedVehicles_ are exact inverses of each other in every
\* reachable state: vehicles_[s] = v if and only if storedVehicles_[v] = s.
C1_MapsAreInverse ==
    \A s \in StoredVehicles : \A v \in Vehicles :
        (vehicles_[s] = v) <=> (storedVehicles_[v] = s)

\* Both stored vehicles are live, one of them for the second time.
C1_Witness ==
    /\ \A s \in StoredVehicles : vehicles_[s] # None
    /\ \E v \in Vehicles : v < nextVehicle /\ ~connected[v] /\ storedVehicles_[v] = None

\* C2: a timer whose captured token is no longer the vehicle's entry in the
\* token table fires without any effect: no call is made (unpin, death hook,
\* vehicle.respawn()) and the pin and token tables are left as they are; the
\* step that fires it changes nothing but the set of pending timers.
C2_StaleTimerIsNoOp ==
    [][ \A timer \in timers :
          respawnTokens_[timer.vehicle] # timer.token =>
            /\ NoEffect(respawnTimerFired(St, timer))
            /\ timer \notin timers' =>
                  /\ timers' = timers \ {timer}
                  /\ UNCHANGED << vehicles_, storedVehicles_, respawnTokens_, pinned_,
                                  disposed_, sweep, connected, occupantCount, trailer,
                                  nextVehicle, nextToken >> ]_vars

\* A timer of a live, connected vehicle is pending and its token was cleared
\* or replaced since.
C2_Witness ==
    \E timer \in timers :
        /\ connected[timer.vehicle]
        /\ storedVehicles_[timer.vehicle] # None
        /\ respawnTokens_[timer.vehicle] # timer.token

\* C3: a timer whose vehicle is no longer connected fires without any effect,
\* also when the token it captured is still the vehicle's entry in the table.
C3_DisconnectedTimerIsNoOp ==
    \A timer \in timers :
        ~connected[timer.vehicle] => NoEffect(respawnTimerFired(St, timer))

\* A timer is pending for a vehicle that deleteEntity disposed of, and the
\* token table still holds its token.
C3_Witness ==
    \E timer \in timers :
        /\ ~connected[timer.vehicle]
        /\ storedVehicles_[timer.vehicle] = None
        /\ respawnTokens_[timer.vehicle] = timer.token

\* C4 (as claimed): every event that invalidates the pending respawn of a
\* vehicle - the vehicle is entered, scheduled again, or dematerialized - leaves
\* the token table without the token that the pending timer captured.
C4_InvalidationClearsToken ==
    [][ \A timer \in timers :
          LET vehicle == timer.vehicle IN
          ( /\ respawnTokens_[vehicle] = timer.token
            /\ \/ occupantCount'[vehicle] > occupantCount[vehicle]
               \/ \E other \in timers' \ timers : other.vehicle = vehicle
               \/ storedVehicles_[vehicle] # None /\ storedVehicles_'[vehicle] = None )
          => respawnTokens_'[vehicle] # timer.token ]_vars

\* C5: onPlayerEnterVehicle on a managed vehicle leaves the stored vehicle with
\* the RecentUsagePin and the vehicle without a respawn token; on a vehicle the
\* streamer does not manage it leaves the pin and token tables as they are.
C5_EnterPinsAndCancels ==
    \A vehicle \in Vehicles :
        connected[vehicle] =>
            LET st == onPlayerEnterVehicle(St, vehicle)
                storedVehicle == storedVehicles_[vehicle]
            IN IF storedVehicle # None
               THEN /\ << storedVehicle, RecentUsagePin >> \in st.pinned_
                    /\ st.respawnTokens_[vehicle] = None
                    /\ \A other \in Vehicles \ {vehicle} :
                          st.respawnTokens_[other] = respawnTokens_[other]
               ELSE NoEffect(st)

\* A managed vehicle has an occupant, is pinned and has no token, while the
\* timer of a respawn scheduled before the player entered is still pending.
C5_Witness ==
    \E timer \in timers :
        /\ storedVehicles_[timer.vehicle] # None
        /\ occupantCount[timer.vehicle] > 0
        /\ << storedVehicles_[timer.vehicle], RecentUsagePin >> \in pinned_
        /\ respawnTokens_[timer.vehicle] = None

\* The tokens that the token table or a pending timer still holds.
TokensInUse == { respawnTokens_[v] : v \in Vehicles } \cup { timer.token : timer \in timers }

\* |st| is the state after a respawn of |vehicle| was scheduled in the current
\* state with twice the multiplier |timeMultipler2|: a fresh token is the
\* vehicle's entry, a timer of respawnDelay * multiplier seconds captured it,
\* and nothing else was written.
ScheduledIn(st, vehicle, timeMultipler2) ==
    LET token == st.respawnTokens_[vehicle] IN
    /\ token # None
    /\ token \notin TokensInUse
    /\ st.timers = timers \cup
          {[vehicle |-> vehicle, token |-> token,
            respawnTime2 |-> respawnDelay(storedVehicles_[vehicle]) * timeMultipler2]}
    /\ \A other \in Vehicles \ {vehicle} : st.respawnTokens_[other] = respawnTokens_[other]
    /\ st.pinned_ = pinned_

\* C6 (as claimed): when the last occupant leaves a managed vehicle, a respawn
\* is scheduled with multiplier 1 and a fresh token is stored for the vehicle.
C6_LastLeaveAlwaysSchedules ==
    \A vehicle \in Vehicles :
        ( /\ connected[vehicle]
          /\ storedVehicles_[vehicle] # None
          /\ occupantCount[vehicle] = 1
          /\ nextToken <= MaxTokens )
        => ScheduledIn(onPlayerLeaveVehicle(St, vehicle), vehicle, 2)

\* C6 (amended): when the last occupant leaves a managed vehicle whose respawn
\* delay is not negative, a respawn is scheduled with multiplier 1 and a fresh
\* token is stored; when the delay is negative no token is stored and the
\* RecentUsagePin is released; when other occupants remain nothing is written.
C6_LeaveSchedulesUnlessNever ==
    \A vehicle \in Vehicles :
        ( /\ connected[vehicle]
          /\ storedVehicles_[vehicle] # None
          /\ occupantCount[vehicle] >= 1
          /\ nextToken <= MaxTokens )
        => LET st == onPlayerLeaveVehicle(St, vehicle)
               storedVehicle == storedVehicles_[vehicle]
           IN IF occupantCount[vehicle] > 1 THEN NoEffect(st)
              ELSE IF respawnDelay(storedVehicle) >= 0
              THEN ScheduledIn(st, vehicle, 2)
              ELSE /\ st.respawnTokens_ = respawnTokens_
                   /\ st.timers = timers
                   /\ st.pinned_ = pinned_ \ {<< storedVehicle, RecentUsagePin >>}

\* The last occupant has left a managed vehicle: it is empty and still pinned,
\* and the timer that captured its token runs for the full respawn delay.
C6_Witness ==
    \E timer \in timers :
        LET storedVehicle == storedVehicles_[timer.vehicle] IN
        /\ storedVehicle # None
        /\ connected[timer.vehicle]
        /\ occupantCount[timer.vehicle] = 0
        /\ << storedVehicle, RecentUsagePin >> \in pinned_
        /\ respawnTokens_[timer.vehicle] = timer.token
        /\ timer.respawnTime2 = 2 * respawnDelay(storedVehicle)

\* C7 (as claimed): neither a respawn timer nor respawnUnoccupiedVehicles
\* calls vehicle.respawn() on a managed vehicle that has an occupant.
C7_NoRespawnWhileOccupied ==
    LET Safe(eff) ==
            \A i \in DOMAIN eff :
                ( /\ eff[i].kind = "respawn"
                  /\ storedVehicles_[eff[i].vehicle] # None )
                => occupantCount[eff[i].vehicle] = 0
    IN /\ \A timer \in timers : Safe(respawnTimerFired(St, timer).effects)
       /\ Safe(respawnUnoccupiedFrom(St, 1).effects)

\* C8: a managed vehicle whose respawn delay is negative never has a respawn
\* token or a timer, and scheduleVehicleForRespawn called for it, with either
\* multiplier, stores no token, starts no timer, respawns nothing and leaves the
\* stored vehicle without the RecentUsagePin.
C8_NeverSentinel ==
    \A vehicle \in Vehicles :
        LET storedVehicle == storedVehicles_[vehicle] IN
        (storedVehicle # None /\ respawnDelay(storedVehicle) < 0) =>
            /\ respawnTokens_[vehicle] = None
            /\ \A timer \in timers : timer.vehicle # vehicle
            /\ \A timeMultipler2 \in {1, 2} :
                  LET st == scheduleVehicleForRespawn(St, vehicle, storedVehicle,
                                                      timeMultipler2)
                  IN /\ st.respawnTokens_ = respawnTokens_
                     /\ st.timers = timers
                     /\ st.nextToken = nextToken
                     /\ \A i \in DOMAIN st.effects : st.effects[i].kind = "unpin"
                     /\ st.pinned_ = pinned_ \ {<< storedVehicle, RecentUsagePin >>}

\* A vehicle with the sentinel was in use and was released while a player was
\* still in it: it has an occupant and no pin.
C8_Witness ==
    \E vehicle \in Vehicles :
        LET storedVehicle == storedVehicles_[vehicle] IN
        /\ storedVehicle # None
        /\ respawnDelay(storedVehicle) < 0
        /\ connected[vehicle]
        /\ occupantCount[vehicle] = 1
        /\ << storedVehicle, RecentUsagePin >> \notin pinned_

\* C9: two respawns scheduled one after the other for the same live vehicle,
\* with any multipliers and nothing in between: whichever timer fires first,
\* the firing of the earlier one makes no call and writes nothing, and the
\* later one respawns the vehicle, exactly once.
C9_OverlappingRespawns ==
    \A vehicle \in Vehicles : \A m1, m2 \in {1, 2} :
        LET storedVehicle == storedVehicles_[vehicle]
            Fresh(st) == [st EXCEPT !.effects = << >>]
            Same(st1, st2) == Fresh(st1) = Fresh(st2)
        IN ( /\ storedVehicle # None
             /\ connected[vehicle]
             /\ respawnDelay(storedVehicle) >= 0
             /\ nextToken + 1 <= MaxTokens )
           => LET first == scheduleVehicleForRespawn(St, vehicle, storedVehicle, m1)
                  second == scheduleVehicleForRespawn(Fresh(first), vehicle,
                                                      storedVehicle, m2)
                  earlier == [vehicle |-> vehicle, token |-> nextToken,
                              respawnTime2 |-> respawnDelay(storedVehicle) * m1]
                  later == [vehicle |-> vehicle, token |-> nextToken + 1,
                            respawnTime2 |-> respawnDelay(storedVehicle) * m2]
                  earlierFirst == respawnTimerFired(Fresh(second), earlier)
                  thenLater == respawnTimerFired(Fresh(earlierFirst), later)
                  laterFirst == respawnTimerFired(Fresh(second), later)
                  thenEarlier == respawnTimerFired(Fresh(laterFirst), earlier)
              IN /\ {earlier, later} \subseteq second.timers
                 /\ earlierFirst.effects = << >>
                 /\ Same(earlierFirst, second)
                 /\ Cardinality(Calls(thenLater.effects, "respawn", vehicle)) = 1
                 /\ Cardinality(Calls(laterFirst.effects, "respawn", vehicle)) = 1
                 /\ thenEarlier.effects = << >>
                 /\ Same(thenEarlier, laterFirst)

\* Two timers are pending for the same live vehicle, and the token table
\* holds the token of the one scheduled later.
C9_Witness ==
    \E earlier, later \in timers :
        /\ earlier.vehicle = later.vehicle
        /\ earlier.token < later.token
        /\ connected[later.vehicle]
        /\ storedVehicles_[later.vehicle] # None
        /\ respawnTokens_[later.vehicle] = later.token

\* The vehicle and the trailers attached to it, head first.
RECURSIVE ChainOf(_)
ChainOf(vehicle) ==
    IF vehicle = None THEN << >> ELSE << vehicle >> \o ChainOf(trailer[vehicle])

\* The calls that the respawn of one link of a chain consists of.
LinkCalls(vehicle) ==
    LET storedVehicle == storedVehicles_[vehicle] IN
    (IF storedVehicle = None THEN << >>
     ELSE << Eff("unpin", vehicle, storedVehicle, None),
             Eff("deleteToken", vehicle, None, None) >>
          \o (IF deathFn(storedVehicle)
              THEN << Eff("deathFn", vehicle, storedVehicle, None) >>
              ELSE << >>))
    \o (IF connected[vehicle] THEN << Eff("respawn", vehicle, None, None) >> ELSE << >>)

RECURSIVE ChainCalls(_)
ChainCalls(chain) ==
    IF chain = << >> THEN << >> ELSE LinkCalls(Head(chain)) \o ChainCalls(Tail(chain))

\* C10: a timer that fires with its token still current walks the chain
\* vehicle -> trailer -> trailer's trailer in that order: for each managed link
\* it unpins the stored vehicle, deletes the token and calls the death hook if
\* there is one, and it respawns each connected link once before it moves on;
\* afterwards no managed link has the RecentUsagePin or a token.
C10_RespawnWalksTheChain ==
    \A timer \in timers :
        (connected[timer.vehicle] /\ respawnTokens_[timer.vehicle] = timer.token) =>
            LET st == respawnTimerFired(St, timer)
                chain == ChainOf(timer.vehicle)
                managed == { storedVehicles_[v] : v \in Range(chain) } \ {None}
            IN /\ st.effects = ChainCalls(chain)
               /\ \A v \in Range(chain) :
                     Cardinality(Calls(st.effects, "respawn", v)) = 1
               /\ st.pinned_ = pinned_ \ { << s, RecentUsagePin >> : s \in managed }
               /\ \A v \in Vehicles :
                     st.respawnTokens_[v] =
                         IF v \in Range(chain) /\ storedVehicles_[v] # None
                         THEN None ELSE respawnTokens_[v]

\* A timer with a current token is pending for a vehicle that tows a trailer
\* that tows a trailer, two of the three managed and pinned.
C10_Witness ==
    \E timer \in timers :
        LET chain == ChainOf(timer.vehicle) IN
        /\ connected[timer.vehicle]
        /\ respawnTokens_[timer.vehicle] = timer.token
        /\ Len(chain) = 3
        /\ \E i, j \in DOMAIN chain :
              /\ i # j
              /\ storedVehicles_[chain[i]] # None
              /\ storedVehicles_[chain[j]] # None
              /\ << storedVehicles_[chain[i]], RecentUsagePin >> \in pinned_
              /\ << storedVehicles_[chain[j]], RecentUsagePin >> \in pinned_
              /\ deathFn(storedVehicles_[chain[i]])
              /\ ~deathFn(storedVehicles_[chain[j]])

\* |vehicle| is one that a pass with |reading| finds moved: live, unoccupied,
\* without a token, and farther than the threshold from its stored position or
\* in another virtual world or interior.
Drifted(vehicle, reading) ==
    /\ keyOf(vehicle) # None
    /\ occupantCount[vehicle] = 0
    /\ respawnTokens_[vehicle] = None
    /\ \/ reading[vehicle][1] > UnoccupiedRespawnThreshold
       \/ reading[vehicle][2]
       \/ reading[vehicle][3]

C13_CreateOfLiveThrows ==
    \A s \in StoredVehicles :
        vehicles_[s] \in Vehicles =>
            /\ createEntityThrows(s)
            /\ ~ENABLED << CreateEntity(s) >>_vars

\* A stored vehicle is live and scheduled for respawn while the engine could
\* still create another vehicle.
C13_Witness ==
    \E s \in StoredVehicles :
        /\ ~disposed_
        /\ vehicles_[s] \in Vehicles
        /\ connected[vehicles_[s]]
        /\ respawnTokens_[vehicles_[s]] # None
        /\ nextVehicle <= MaxVehicles

\* C14: deleteEntity on a stored vehicle that has no live vehicle throws, and
\* the call cannot change anything: both maps stay as they are, no death hook
\* is called and no vehicle is disposed of.
C14_DeleteOfAbsentThrows ==
    \A s \in StoredVehicles :
        vehicles_[s] = None =>
            /\ deleteEntityThrows(s)
            /\ deleteEntityCalls(St, s).effects = << >>
            /\ ~ENABLED << DeleteEntity(s) >>_vars

\* A stored vehicle with a death hook was live and was deleted, and the other
\* stored vehicle is live.
C14_Witness ==
    \E s \in StoredVehicles : \E v, other \in Vehicles :
        /\ ~disposed_
        /\ vehicles_[s] = None
        /\ deathFn(s)
        /\ v < nextVehicle
        /\ ~connected[v]
        /\ connected[other]
        /\ storedVehicles_[other] # None

\* C15 (as claimed): when entities_.createVehicle() fails, no entry is
\* recorded for the stored vehicle: a stored vehicle without a live vehicle
\* has no entry in vehicles_, no entry of storedVehicles_ points to it, and a
\* later createEntity for it does not throw.
C15_FailedCreateLeavesNoEntry ==
    \A s \in StoredVehicles :
        vehicles_[s] \notin Vehicles =>
            /\ vehicles_[s] = None
            /\ \A key \in VehicleKeys : storedVehicles_[key] # s
            /\ ~createEntityThrows(s)

\* The lock that synchronisation leaves on the vehicle of |storedVehicle| for
\* a player in state |status|.
LockedAfterSync(storedVehicle, status) ==
    hasAccessFn(storedVehicle) /\ ~accessFn(status, storedVehicle)

\* C16: in the step in which createEntity materializes a stored vehicle, the
\* new vehicle ends up locked for an online player exactly when the stored
\* vehicle has an access function that answers false for that player, and
\* unlocked for every other online player.
C16_CreateSynchronizesAccess ==
    [][ \A s \in StoredVehicles :
          (vehicles_[s] = None /\ vehicles_'[s] \in Vehicles) =>
              \A p \in OnlinePlayers(players) :
                  (<< vehicles_'[s], p >> \in locked')
                      <=> LockedAfterSync(s, players[p]) ]_vars

\* A restricted stored vehicle was materialized, not for the first time, with
\* a guest and a member online: its vehicle is locked for the guest only.
C16_Witness ==
    \E s \in StoredVehicles : \E guest, member \in Players :
        /\ hasAccessFn(s)
        /\ vehicles_[s] \in Vehicles
        /\ vehicles_[s] > 1
        /\ players[guest] = "guest"
        /\ players[member] = "member"
        /\ << vehicles_[s], guest >> \in locked
        /\ << vehicles_[s], member >> \notin locked

\* C17: in the step in which a player connects, logs in or has their level
\* changed, every live vehicle ends up locked for that player exactly when its
\* stored vehicle has an access function that answers false for the player,
\* and no lock of another player changes.
C17_PlayerEventSynchronizesAccess ==
    [][ \A p \in Players :
          (players'[p] # players[p] /\ players'[p] # "offline") =>
              /\ \A s \in LiveStoredVehicles :
                    (<< vehicles_[s], p >> \in locked')
                        <=> LockedAfterSync(s, players'[p])
              /\ \A v \in Vehicles : \A q \in Players \ {p} :
                    (<< v, q >> \in locked') <=> (<< v, q >> \in locked) ]_vars

\* Both stored vehicles are live and both players online: the restricted
\* vehicle is unlocked for the player who logged in and locked for the guest,
\* and the other vehicle is locked for neither.
C17_Witness ==
    \E member, guest \in Players : \E s, free \in StoredVehicles :
        /\ players[member] = "member"
        /\ players[guest] = "guest"
        /\ hasAccessFn(s) /\ ~hasAccessFn(free)
        /\ vehicles_[s] \in Vehicles /\ vehicles_[free] \in Vehicles
        /\ locked = {<< vehicles_[s], guest >>}

\* The vehicle and the vehicles up its parent chain.
ParentChain(vehicle) == {vehicle} \cup towing(vehicle)

\* |vehicle| is managed and its stored vehicle holds the RecentUsagePin.
InUse(vehicle) ==
    /\ storedVehicles_[vehicle] # None
    /\ << storedVehicles_[vehicle], RecentUsagePin >> \in pinned_

\* C18: when a trailer is attached to a vehicle and that vehicle or a vehicle
\* up its parent chain is managed and pinned, a managed trailer holds the
\* RecentUsagePin and has no respawn token afterwards, and nothing else is
\* written; when no vehicle of the chain is managed and pinned, or the trailer
\* is not managed, nothing is written at all.
C18_AttachMarksTrailerInUse ==
    \A vehicle, attached \in Vehicles :
        ( /\ vehicle # attached
          /\ connected[vehicle] /\ connected[attached]
          /\ trailer[vehicle] = None
          /\ parent(attached) = None
          /\ attached \notin towing(vehicle) )
        => LET st == onTrailerAttached(St, vehicle, attached)
               storedVehicle == storedVehicles_[attached]
           IN IF storedVehicle # None /\ \E v \in ParentChain(vehicle) : InUse(v)
              THEN /\ st.pinned_ = pinned_ \cup {<< storedVehicle, RecentUsagePin >>}
                   /\ st.respawnTokens_ = [respawnTokens_ EXCEPT ![attached] = None]
                   /\ st.timers = timers
              ELSE NoEffect(st)

\* A pinned managed vehicle tows a vehicle that is not in use, which tows a
\* managed trailer that nobody entered and that holds the RecentUsagePin.
C18_Witness ==
    \E head, middle, last \in Vehicles :
        /\ trailer[head] = middle
        /\ trailer[middle] = last
        /\ InUse(head)
        /\ ~InUse(middle)
        /\ InUse(last)
        /\ occupantCount[last] = 0
        /\ respawnTokens_[last] = None

LeftByLastOccupant(vehicle) ==
    /\ InUse(vehicle)
    /\ connected[vehicle]
    /\ occupantCount[vehicle] = 0
    /\ parent(vehicle) = None
    /\ \E timer \in timers :
          timer.vehicle = vehicle /\ timer.token = respawnTokens_[vehicle]

\* C20 (as claimed): once the last occupant has left a managed vehicle, the
\* RecentUsagePin of its stored vehicle is eventually removed, unless the
\* vehicle is entered again, stops being live or is attached as a trailer.
C20_RecentUsagePinIsTransient ==
    \A vehicle \in Vehicles :
        LeftByLastOccupant(vehicle) ~>
            \/ ~InUse(vehicle)
            \/ ~connected[vehicle]
            \/ occupantCount[vehicle] > 0
            \/ parent(vehicle) # None

\* The vehicles that are values of vehicles_.
LiveVehicles == { v \in Vehicles : keyOf(v) # None }

C28_RespawnUnoccupiedVehicles ==
    LET st == respawnUnoccupiedFrom(St, 1)
        after == [st EXCEPT !.effects = << >>]
        unoccupied == { v \in LiveVehicles : occupantCount[v] = 0 }
        CallsAbout(v) == { i \in DOMAIN st.effects : st.effects[i].vehicle = v }
    IN /\ \A v \in unoccupied :
             /\ st.respawnTokens_[v] = None
             /\ Cardinality(Calls(st.effects, "deathFn", v))
                   = IF deathFn(keyOf(v)) THEN 1 ELSE 0
             /\ Cardinality(Calls(st.effects, "respawn", v))
                   = IF connected[v] THEN 1 ELSE 0
             /\ \A timer \in timers :
                   timer.vehicle = v => respawnTimerFired(after, timer) = after
       /\ \A v \in Vehicles \ unoccupied :
             /\ st.respawnTokens_[v] = respawnTokens_[v]
             /\ CallsAbout(v) = {}
       /\ st.timers = timers
       /\ ~ENABLED ( /\ RespawnUnoccupiedVehicles
                     /\ << vehicles_, storedVehicles_ >>' # << vehicles_, storedVehicles_ >> )

\* An empty live vehicle with a death hook has a pending timer that holds its
\* token, while another live vehicle is occupied.
C28_Witness ==
    \E pending \in timers : \E occupied \in LiveVehicles :
        /\ ~disposed_
        /\ pending.vehicle \in LiveVehicles
        /\ connected[pending.vehicle]
        /\ occupantCount[pending.vehicle] = 0
        /\ deathFn(keyOf(pending.vehicle))
        /\ respawnTokens_[pending.vehicle] = pending.token
        /\ occupantCount[occupied] > 0

\* C29: after dispose() both maps and the token table are empty, every timer
\* that is still pending fires as a no-op (no unpin, no death hook, no
\* respawn), and the drift sweep, when it wakes up, can only stop: it
\* schedules nothing and writes nothing.
C29_DisposeStopsEverything ==
    disposed_ =>
        /\ \A s \in StoredVehicles : vehicles_[s] = None
        /\ \A v \in VehicleKeys : storedVehicles_[v] = None
        /\ \A v \in Vehicles : respawnTokens_[v] = None
        /\ \A timer \in timers : NoEffect(respawnTimerFired(St, timer))
        /\ sweep = "waiting" =>
              /\ ENABLED Sweep
              /\ ~ENABLED ( /\ Sweep
                            /\ \/ sweep' # "done"
                               \/ timers' # timers
                               \/ respawnTokens_' # respawnTokens_
                               \/ pinned_' # pinned_ )

\* The streamer was disposed of while a timer was pending for a vehicle it
\* had pinned, and the sweep has not woken up since.
C29_Witness ==
    /\ disposed_
    /\ sweep = "waiting"
    /\ \E timer \in timers : \E s \in StoredVehicles :
          /\ ~connected[timer.vehicle]
          /\ << s, RecentUsagePin >> \in pinned_

\* C30: onVehicleSpawn of a managed vehicle puts the interior and the virtual
\* world of the vehicle back to those of the stored vehicle where they differ,
\* and then calls the respawn hook once if there is one; it writes no table.
\* For a vehicle that the streamer does not manage it does nothing.
C30_SpawnRestoresVehicle ==
    \A vehicle \in Vehicles : \A reading \in Readings :
        connected[vehicle] =>
            LET st == onVehicleSpawn(St, vehicle, reading)
                storedVehicle == storedVehicles_[vehicle]
                count(kind) == Cardinality(Calls(st.effects, kind, vehicle))
            IN IF storedVehicle = None THEN NoEffect(st)
               ELSE /\ count("setInteriorId") = (IF reading[3] THEN 1 ELSE 0)
                    /\ count("setVirtualWorld") = (IF reading[2] THEN 1 ELSE 0)
                    /\ count("respawnFn") = (IF respawnFn(storedVehicle) THEN 1 ELSE 0)
                    /\ respawnFn(storedVehicle) =>
                          st.effects[Len(st.effects)].kind = "respawnFn"
                    /\ Len(st.effects)
                          = count("setInteriorId") + count("setVirtualWorld")
                            + count("respawnFn")
                    /\ [st EXCEPT !.effects = << >>] = St

\* A vehicle whose stored vehicle has a respawn hook was respawned by its
\* timer (it is live, empty, without pin or token), next to a vehicle that
\* the streamer does not manage.
C30_Witness ==
    \E vehicle, foreign \in Vehicles :
        LET storedVehicle == storedVehicles_[vehicle] IN
        /\ ~disposed_
        /\ storedVehicle # None
        /\ respawnFn(storedVehicle)
        /\ connected[vehicle]
        /\ occupantCount[vehicle] = 0
        /\ connected[foreign]
        /\ storedVehicles_[foreign] = None
        /\ timers = {}
        /\ nextToken > 1

\* What stream() can be given: the distance of every stored vehicle to the
\* nearest observer.
ObserverDistances == [StoredVehicles -> Distances]

\* C22: after any streaming pass, and after any sequence of add, delete, pin,
\* unpin and stream, at most maxVisible vehicles are live; and no pass
\* selects more than what, with the vehicles it keeps, makes maxVisible.
C22_LiveCountAtMostMaxVisible ==
    /\ Cardinality(LiveStoredVehicles) <= MaxVisible
    /\ \A distance \in ObserverDistances :
           LET selected == select(distance, LiveStoredVehicles, PinnedOnes, MaxVisible)
           IN  Cardinality(LiveStoredVehicles \ selected.toDematerialize)
                   + Len(selected.toMaterialize) <= MaxVisible

\* A pass that selected a vehicle for dematerialization and then saw it pinned
\* is about to materialize another one while maxVisible vehicles are live.
C22_Witness ==
    /\ pass.phase = "materialize"
    /\ pass.toMaterialize # << >>
    /\ Head(pass.toMaterialize) \in registered
    /\ vehicles_[Head(pass.toMaterialize)] = None
    /\ Cardinality(LiveStoredVehicles) = MaxVisible

\* C23: a streaming pass never dematerializes a live vehicle that is pinned
\* under at least one type, however far the observers are: it does not select
\* it, and it does not dematerialize it when it was pinned after the
\* selection. A live vehicle without a pin that is out of range of every
\* observer is selected for dematerialization by the next pass.
C23_PassKeepsPinned ==
    [][ /\ \A s \in StoredVehicles :
               (pass' # pass /\ vehicles_[s] # None /\ vehicles_'[s] = None)
                   => ~isPinned(St, s)
        /\ \A distance \in ObserverDistances, s \in LiveStoredVehicles :
               LET selected == select(distance, LiveStoredVehicles, PinnedOnes,
                                      MaxVisible)
               IN  /\ isPinned(St, s) => s \notin selected.toDematerialize
                   /\ (~isPinned(St, s) /\ distance[s] > StreamingDistance)
                          => s \in selected.toDematerialize ]_vars

\* A live vehicle that is pinned under the other type only, after the pin of
\* recent usage was removed, while the pass in flight is about to handle it.
C23_Witness ==
    \E s \in StoredVehicles :
        /\ vehicles_[s] # None
        /\ <<s, "OtherPin">> \in pinned_
        /\ <<s, RecentUsagePin>> \notin pinned_
        /\ pass.phase = "dematerialize"
        /\ s \in pass.toDematerialize

\* C24: delete of a stored vehicle that was removed already returns false,
\* changes nothing, and does not call deleteEntity, so that deleteEntity's
\* 'invalid vehicle' error is not raised.
C24_DeleteIsIdempotent ==
    \A s \in StoredVehicles \ registered :
        /\ ~deleteFinds(s)
        /\ ~deleteDematerializes(s)
        /\ ~ENABLED << Delete(s) >>_vars

\* A stored vehicle was removed after the pass in flight selected it, while
\* the streamer is in use.
C24_Witness ==
    \E s \in StoredVehicles \ registered :
        /\ ~disposed_
        /\ s \in pass.toDematerialize \cup Range(pass.toMaterialize)
        /\ nextVehicle > 1

\* C25: a pass materializes nothing while a dematerialization that it selected
\* has not been applied, and no step of a pass leaves more than maxVisible
\* vehicles live.
C25_DematerializeBeforeMaterialize ==
    [][ pass' # pass =>
            /\ Cardinality({ s \in StoredVehicles : vehicles_'[s] # None }) <= MaxVisible
            /\ (\E s \in StoredVehicles : vehicles_[s] = None /\ vehicles_'[s] # None)
                   => pass.toDematerialize = {} ]_vars

\* A pass in flight that has both a dematerialization and a materialization to
\* apply, with maxVisible vehicles live.
C25_Witness ==
    /\ pass.phase # "idle"
    /\ pass.toDematerialize # {}
    /\ pass.toMaterialize # << >>
    /\ Cardinality(LiveStoredVehicles) = MaxVisible

\* C26: while a streaming pass is in flight, stream() leaves the pass as it
\* is and changes nothing else: it neither materializes nor dematerializes.
C26_StreamDoesNotReenter ==
    pass.phase # "idle" =>
        \A distance \in ObserverDistances :
            /\ streamStart(pass, distance) = pass
            /\ ~ENABLED << Stream(distance) >>_vars

\* A pass is in flight with changes left to apply, and a pass that started
\* now would select something else.
C26_Witness ==
    /\ pass.phase # "idle"
    /\ pass.toDematerialize # {}
    /\ \E distance \in ObserverDistances :
           select(distance, LiveStoredVehicles, PinnedOnes, MaxVisible).toDematerialize
               # pass.toDematerialize

C31_RespawnKeepsMaps ==
    [][ (RespawnUnoccupiedVehicles \/ \E timer \in timers : FireTimer(timer))
            => /\ vehicles_' = vehicles_
               /\ storedVehicles_' = storedVehicles_
               /\ \A v \in LiveVehicles : keyOf(v)' = keyOf(v) ]_vars

\* A pending timer holds the current token of a connected live vehicle that
\* tows a managed trailer: when it fires, both are respawned.
C31_Witness ==
    \E pending \in timers :
        /\ ~disposed_
        /\ connected[pending.vehicle]
        /\ respawnTokens_[pending.vehicle] = pending.token
        /\ keyOf(pending.vehicle) # None
        /\ trailer[pending.vehicle] # None
        /\ keyOf(trailer[pending.vehicle]) # None

\* A managed trailer that holds the RecentUsagePin while it is attached to a
\* chain of vehicles of which one is in use.
AttachedInUse(attached) ==
    /\ InUse(attached)
    /\ parent(attached) # None
    /\ \E v \in towing(attached) : InUse(v)

\* C32 (as claimed): while a managed trailer is attached to an in-use vehicle
\* and marked in use, no pass of the drift sweep schedules a respawn for it,
\* and no timer scheduled for the trailer respawns or unpins it.
C32_AttachedTrailerIsLeftAlone ==
    \A attached \in Vehicles :
        (~disposed_ /\ connected[attached] /\ AttachedInUse(attached)) =>
            /\ \A reading \in SweepReadings :
                   LET st == sweepFrom(St, 1, reading)
                   IN  /\ st.respawnTokens_[attached] = respawnTokens_[attached]
                       /\ \A timer \in st.timers \ timers : timer.vehicle # attached
            /\ \A timer \in timers :
                   timer.vehicle = attached =>
                       LET st == respawnTimerFired(St, timer)
                       IN  /\ Calls(st.effects, "respawn", attached) = {}
                           /\ Calls(st.effects, "unpin", attached) = {}

\* C33: every live, connected vehicle with an entry in respawnTokens_ has a
\* pending timer that captured exactly that token, so that the drift sweep
\* does not skip a vehicle for a respawn that will never come.
C33_TokenHasPendingTimer ==
    \A v \in LiveVehicles :
        (connected[v] /\ respawnTokens_[v] # None)
            => \E pending \in timers :
                   pending.vehicle = v /\ pending.token = respawnTokens_[v]

\* A live, connected vehicle whose token was replaced: the timer of the first
\* respawn and the timer of the second are both pending.
C33_Witness ==
    \E v \in LiveVehicles : \E stale, pending \in timers :
        /\ connected[v]
        /\ stale.vehicle = v /\ pending.vehicle = v
        /\ stale.token # pending.token
        /\ respawnTokens_[v] = pending.token

\* Every timer that scheduleVehicleForRespawn can be waiting for.
TimerRecords ==
    [vehicle : Vehicles, token : Tokens,
     respawnTime2 : { respawnDelay(s) * m : s \in { d \in StoredVehicles : respawnDelay(d) >= 0 },
                                             m \in {1, 2} }]

\* The streamer with the operations that schedule, cancel and fire respawns.
RespawnNext ==
    \/ \E s \in StoredVehicles : CreateEntity(s)
    \/ \E s \in StoredVehicles : DeleteEntity(s)
    \/ \E v \in Vehicles : EnterVehicle(v)
    \/ \E v \in Vehicles : LeaveVehicle(v)
    \/ \E timer \in timers : FireTimer(timer)
    \/ Sweep

\* `await seconds(respawnTime)` returns for every call that waits.
TimerFairSpec ==
    /\ Init
    /\ [][RespawnNext]_vars
    /\ \A timer \in TimerRecords : WF_vars(FireTimer(timer))

\* The respawn that |timer| waits for is still due: the vehicle is managed
\* and connected and holds the token that the timer captured.
RespawnDue(timer) ==
    /\ timer \in timers
    /\ storedVehicles_[timer.vehicle] # None
    /\ connected[timer.vehicle]
    /\ respawnTokens_[timer.vehicle] = timer.token

\* C34: a respawn that is due does not stay due for ever: its timer fires
\* unless the token is replaced or the vehicle disconnects first; and the
\* timer that fires while the respawn is due respawns the vehicle once and
\* removes its token, which leaves the vehicle to the drift sweep again.
C34_DueRespawnFires ==
    /\ \A timer \in TimerRecords : RespawnDue(timer) ~> ~RespawnDue(timer)
    /\ [][ \A timer \in timers :
               (RespawnDue(timer) /\ FireTimer(timer)) =>
                   LET st == respawnTimerFired(St, timer)
                   IN  /\ Cardinality(Calls(st.effects, "respawn", timer.vehicle)) = 1
                       /\ respawnTokens_'[timer.vehicle] = None
                       /\ timer \notin timers' ]_vars

\* The delay that |timer| waits for.
respawnTime2Of(timer) == timer.respawnTime2

\* A respawn is due for an empty live vehicle.
C34_Witness ==
    \E timer \in timers :
        /\ ~disposed_
        /\ RespawnDue(timer)
        /\ occupantCount[timer.vehicle] = 0
        /\ respawnTime2Of(timer) >= 0

\* C35: when the respawn timer of a Pickup fires after dispose(), the resumed
\* scheduleRespawn() calls neither CreatePickup nor didRecreatePickup and
\* writes nothing; and a Pickup that was not disposed of reports
\* isConnected() = true, also between DestroyPickup and CreatePickup.
C35_DisposedPickupIsNotRecreated ==
    /\ manager_ = "null" =>
           \A created \in BOOLEAN : scheduleRespawnResumed(PickupSt, created) = PickupSt
    /\ manager_ # "null" => isConnected(PickupSt)

\* The Pickup was disposed of while a scheduleRespawn() call waits.
C35_Witness ==
    /\ manager_ = "null"
    /\ pickupTimers > 0

\* C36 (as claimed): at most one pickup created for the Pickup exists on the
\* server at any time, and none exists after dispose().
C36_AtMostOneEnginePickup ==
    /\ Cardinality(enginePickups) <= 1
    /\ manager_ = "null" => enginePickups = {}

\* C37 (as claimed): of one gang-chat message, own or remote, every player is
\* sent the formatted message at most once, whatever the player is: sender,
\* member of the gang, administrator or spying player.
C37_MessageReceivedAtMostOnce ==
    \A player \in Players : received[player] <= 1

\* The pieces of |pieces| one after the other.
RECURSIVE Concatenated(_)
Concatenated(pieces) ==
    IF pieces = << >> THEN << >> ELSE Head(pieces) \o Concatenated(Tail(pieces))

\* C38 (as claimed): every piece that SendClientMessagePrivate gives to the
\* native SendClientMessage is within the limit, and the pieces in the order
\* of delivery make up the message, also when the message is longer than the
\* limit and has no space where the split is looked for.
C38_MessageDeliveredCompletely ==
    /\ \A i \in DOMAIN delivered : Len(delivered[i]) <= MessageLimit
    /\ Concatenated(delivered) = message

\* The objects that the attached-objects map holds for the players.
AttachedObjects ==
    UNION { attachedObjects_[p].objects : p \in { q \in Players : attachedObjects_[q].has } }

\* C39: every object created through attach exists until it is destroyed,
\* once, by detach on its subject, by the subject's disconnect or by
\* dispose: the objects on the server are those of the map, each under one
\* subject; detach and disconnect destroy exactly the subject's objects and
\* remove its entry, and destroy nothing and write nothing for a subject
\* without an entry; after dispose no object and no entry is left; and
\* DestroyObject is never called for an object that does not exist.
C39_AttachedObjectsDestroyedOnce ==
    /\ ~destroyedTwice
    /\ engineObjects = AttachedObjects
    /\ \A p, q \in Players :
           p # q => attachedObjects_[p].objects \cap attachedObjects_[q].objects = {}
    /\ debugDisposed =>
           engineObjects = {} /\ \A p \in Players : ~attachedObjects_[p].has
    /\ \A subject \in Players :
           LET d == onPlayerDisconnect(DebugSt, subject)
           IN  IF attachedObjects_[subject].has
               THEN /\ d.destroyed = attachedObjects_[subject].objects
                    /\ d.destroyed \subseteq engineObjects
                    /\ d.engineObjects = engineObjects \ d.destroyed
                    /\ ~d.attachedObjects_[subject].has
                    /\ detach(DebugSt, subject) = d
               ELSE d = DebugSt /\ detach(DebugSt, subject) = d

\* One player has two attached objects, the other has no entry, and every id
\* that the server can give out is in use.
C39_Witness ==
    \E p, q \in Players :
        /\ p # q
        /\ Cardinality(attachedObjects_[p].objects) >= 2
        /\ ~attachedObjects_[q].has
        /\ Cardinality(engineObjects) = MaxObjects

====
